---- MODULE Spec2Model ----
(***************************************************************************)
(* Model of the asterio AMI client (asterio/ami/client.py, action.py).     *)
(*                                                                         *)
(* One ManagerClient, one TCP connection at a time, a server that answers  *)
(* the commands it has received, a connect() task and a user task.  Every  *)
(* coroutine is cut at its suspension points (await on the socket or on a  *)
(* future); the code between two suspension points is one atomic step of   *)
(* the single-threaded event loop.                                         *)
(*                                                                         *)
(* Bytes: a frame's content is one symbol (a record holding the header     *)
(* value, the ActionID field and a sequence number standing for the other  *)
(* fields), CR and LF are symbols of their own, so that a read can end     *)
(* inside the 4-byte terminator.                                           *)
(*                                                                         *)
(* Note on client.py:195: parse_incoming_packet is called there without    *)
(* the event_empty_str argument that parser.py:42-44 declares, so the call *)
(* as written raises TypeError before any frame is parsed.  The model      *)
(* follows the body of the parser, that is the client with the argument    *)
(* supplied (Parse): the flag only selects the placeholder of absent       *)
(* optional event attributes.  Everything stated below about processed     *)
(* frames is stated about _process_packet with that call repaired.  The    *)
(* body of the parser is modelled as it is: parse_event raises for the     *)
(* events of class Event under either value of the flag.                   *)
(*                                                                         *)
(* Specifications: Spec starts at the construction of the client;          *)
(* SpecSession starts in the state a successful connect() leaves (Spec     *)
(* reaches it, see SessionStart) and gives the session larger budgets;     *)
(* SpecOrphan starts in the states a close by the peer leaves while        *)
(* commands are pending; SpecFraming, SpecDispatch, SpecPull, SpecSync and *)
(* SpecReject hand a whole stream of frames to a connected client;         *)
(* SpecParser, SpecPacket, SpecFilter, SpecHandler and SpecBind study the  *)
(* parser, the packet accessors, the filters, the event handler and the    *)
(* binding calls on their own, SpecDump the parser of textual filter       *)
(* conditions of amidump.py.                                               *)
(***************************************************************************)
EXTENDS Integers, Sequences, FiniteSets, TLC

\* ------------------------------------------------------------------ bounds
MaxOps == 4         \* frames sent, action() and connect() calls in a session
LifeOps == 3        \* the same from the construction of the client on
MaxUnread == 1      \* frames the server has sent that are still unread

\* --------------------------------------------------------------- constants
None == "none"

\* Symbols of the byte stream: carriage return, line feed, the greeting
\* line "Asterisk Call Manager/x.y" (all symbols are records of one shape)
CR == [type |-> "CR", value |-> None, aid |-> None, n |-> 0]
LF == [type |-> "LF", value |-> None, aid |-> None, n |-> 0]
SIG == [type |-> "SIG", value |-> None, aid |-> None, n |-> 0]

\* ManagerClient._terminator
Terminator == <<CR, LF, CR, LF>>

\* Action objects the user task holds, and the LoginAction of connect().
UserActs == {"A1", "A2", "A3", "A4"}
LoginAct == "LG"
Acts == UserActs \cup {LoginAct}

\* Action.action_id of each object (Packet.action_id reads field actionid):
\* A1 and A3 share an id, A4 had its actionid deleted.
ActionIdOf(o) ==
    CASE o = "A1" -> "a"
      [] o = "A2" -> "b"
      [] o = "A3" -> "a"
      [] o = "A4" -> None
      [] o = LoginAct -> "login"

Ids == {"a", "b", "login"}

\* Values of the Response header, and the name of the events.
RespValues == {"Success", "Error", "Follows"}
EventValues == {"Evt"}

NoPacket == [type |-> None, value |-> None, aid |-> None, n |-> 0]

\* The server's n-th frame: field n stands for the rest of the frame's
\* fields, so that frames are told apart and their order of arrival can
\* be read off.
Frames(n) ==
    [type : {"response"}, value : RespValues, aid : Ids, n : {n}]
    \cup [type : {"event"}, value : EventValues, aid : Ids, n : {n}]

\* ------------------------------------------------------------- Response
\* Response.is_error
is_error(p) == p.value = "Error"

\* Response.is_follows
is_follows(p) == p.value = "Follows"

\* Python bool as a string, so that None can share the field
Bool(b) == IF b THEN "true" ELSE "false"

\* asyncio.Future: "unbound" (attribute is None), "pending", or its result
FutDone(f) == f \in {"true", "false"}

\* --------------------------------------------------------------- Action
\* Action.__init__ / class attributes
NewAction ==
    [response |-> NoPacket, ok |-> None, is_complete |-> FALSE,
     events |-> <<>>, complete_future |-> "unbound",
     response_future |-> "unbound"]

\* Action.bind_loop
bind_loop(a) ==
    [a EXCEPT !.complete_future = "pending", !.response_future = "pending"]

\* Action.process_event: returns [a, exc]
process_event(a, ev) ==
    [a |-> [a EXCEPT !.events = Append(@, ev)], exc |-> None]

\* Action._complete, applied to an action whose response and ok are set;
\* Future.set_result on a future that is done raises InvalidStateError
complete(a) ==
    LET a1 == [a EXCEPT !.is_complete = TRUE]
    IN  IF a1.complete_future = "unbound"
        THEN [a |-> a1, exc |-> "InternalError"]
        ELSE IF a1.response = NoPacket
        THEN [a |-> a1, exc |-> "InternalError"]
        ELSE IF FutDone(a1.complete_future)
        THEN [a |-> a1, exc |-> "InvalidStateError"]
        ELSE [a |-> [a1 EXCEPT !.complete_future = Bool(~(a1.ok = "true"))],
              exc |-> None]

\* Variant of process_response that records the response and leaves the
\* completion to a later step
process_response_later(a, resp) ==
    LET a1 == [a EXCEPT !.response = resp, !.ok = Bool(~is_error(resp))]
    IN  IF a1.response_future = "unbound"
        THEN [a |-> a1, exc |-> "InternalError"]
        ELSE IF FutDone(a1.response_future)
        THEN [a |-> a1, exc |-> "InvalidStateError"]
        ELSE [a |-> [a1 EXCEPT !.response_future = a1.ok], exc |-> None]

\* Action.process_response: returns [a, exc]
process_response(a, resp) ==
    LET a1 == [a EXCEPT !.response = resp, !.ok = Bool(~is_error(resp))]
    IN  IF a1.response_future = "unbound"
        THEN [a |-> a1, exc |-> "InternalError"]
        ELSE LET c == IF ~is_follows(resp) THEN complete(a1)
                      ELSE [a |-> a1, exc |-> None]
             IN  IF c.exc # None THEN c
                 ELSE IF FutDone(c.a.response_future)
                 THEN [a |-> c.a, exc |-> "InvalidStateError"]
                 ELSE [a |-> [c.a EXCEPT !.response_future = c.a.ok],
                       exc |-> None]

\* ---------------------------------------------------------------- state
VARIABLES
    connected,   \* ManagerClient.connected
    sock,        \* _reader/_writer: "none" (never set), "open", "closed"
    peerClosed,  \* the server closed the connection (reads end in b'')
    buffer,      \* ManagerClient._buffer
    pending,     \* ManagerClient._pending_actions: id -> Action object
    act,         \* the Action objects
    wire,        \* chunks handed to StreamWriter.write on this connection
    written,     \* ids whose bytes were written since the last _reset
    inflight,    \* bytes sent by the server and not yet read
    sent,        \* frames the server has sent
    cpc,         \* position of the connect() coroutine
    cexc,        \* how the last connect() ended
    upc,         \* position of the user task's read_packet()
    lastCall,    \* the last action() call and how it ended
    last,        \* how the last read_packet() ended: the frame handled, the
                 \*   exception raised
    budget,      \* frames, action() and connect() calls still to come
    stored,      \* connect(): calls made so far, and the call whose
                 \*   host/port/credentials the client has stored
    fr,          \* framing study: the stream sent, the frames read_packet
                 \*   has handled, the reads made
    fx           \* the evaluation under study in the specifications of
                 \*   the parser, the filters and the event handler

\* the variables of the client
cvars == <<connected, sock, peerClosed, buffer, pending, act, wire, written,
           inflight, sent, cpc, cexc, upc, lastCall, last, budget, stored>>

\* the variables of the studies of single functions
aux == <<fr, fx>>

vars == <<cvars, aux>>

NoFraming == [stream |-> <<>>, out |-> <<>>, reads |-> 0]
NoEval == [pc |-> "none"]

\* ---------------------------------------------------------------- bytes
Prefix(s, k) == SubSeq(s, 1, k)
Suffix(s, k) == SubSeq(s, k + 1, Len(s))

\* Lengths reader.read(_BSIZE) can return when s is what the server has
\* sent: all of it, or a first segment that ends inside a terminator
Cuts(s) == {Len(s)} \cup {k \in {3} : k < Len(s)}

\* positions where the terminator starts
TermAt(buf) ==
    {i \in 1..(Len(buf) - 3) : SubSeq(buf, i, i + 3) = Terminator}

\* `self._terminator in self._buffer`
HasFrame(buf) == TermAt(buf) # {}

FirstTerm(buf) == CHOOSE i \in TermAt(buf) : \A j \in TermAt(buf) : i <= j

LastTerm(buf) == CHOOSE i \in TermAt(buf) : \A j \in TermAt(buf) : j <= i

\* Variant of _get_buffered_packet that splits at the last terminator of
\* the buffer
get_buffered_packet_last(buf) ==
    IF HasFrame(buf)
    THEN [found |-> TRUE,
          packet |-> Prefix(buf, LastTerm(buf) - 1),
          buffer |-> Suffix(buf, LastTerm(buf) + 3)]
    ELSE [found |-> FALSE, packet |-> <<>>, buffer |-> buf]

\* Variant of _get_buffered_packet that empties the buffer when it shifts
\* a frame
get_buffered_packet_drop(buf) ==
    IF HasFrame(buf)
    THEN [found |-> TRUE,
          packet |-> Prefix(buf, FirstTerm(buf) - 1),
          buffer |-> <<>>]
    ELSE [found |-> FALSE, packet |-> <<>>, buffer |-> buf]

\* ManagerClient._get_buffered_packet: [found, packet, buffer]; found is
\* FALSE (the method returns None) when the buffer holds no terminator
get_buffered_packet(buf) ==
    IF HasFrame(buf)
    THEN [found |-> TRUE,
          packet |-> Prefix(buf, FirstTerm(buf) - 1),
          buffer |-> Suffix(buf, FirstTerm(buf) + 3)]
    ELSE [found |-> FALSE, packet |-> <<>>, buffer |-> buf]

IsWs(x) == x \in {CR, LF}

\* bytes.strip()
RECURSIVE LStrip(_)
LStrip(s) == IF s # <<>> /\ IsWs(Head(s)) THEN LStrip(Tail(s)) ELSE s

RECURSIVE RStrip(_)
RStrip(s) ==
    IF s # <<>> /\ IsWs(s[Len(s)]) THEN RStrip(Prefix(s, Len(s) - 1)) ELSE s

Strip(s) == RStrip(LStrip(s))

\* The lines of a frame's content that hold a field: CR/LF left in the
\* content are lines without a colon and are dropped (parser.py:48-59)
FieldLines(content) == SelectSeq(Strip(content), LAMBDA x : ~IsWs(x))

\* The frame a content holds (its header line), NoPacket if it holds none
FrameOf(content) ==
    IF FieldLines(content) = <<>> THEN NoPacket
    ELSE Head(FieldLines(content))

\* Lower-cased keys of the fields a frame of the model carries besides
\* its header
FieldKeys(f) == IF f.aid = None THEN {} ELSE {"actionid"}

\* Parser.parse_event for an event whose class has no annotations of its
\* own (class Event; EVENT_CLASS_MAP holds no class unless the caller
\* registers one): the exception raised.  event.__annotations__ is then
\* the inherited Packet.__annotations__ = {type: str, _data: Dict}; its
\* first attribute, type, is required (ProtocolError when the event has
\* no field of that name), and when the field is there the hint str is
\* refused by isinstance(hint, SIMPLE_HINT_TYPES) (InternalError).
parse_event(keys) ==
    IF "type" \in keys THEN "InternalError" ELSE "ProtocolError"

\* Parser.parse_incoming_packet on a frame's content: [packet, exc].
\* A content without any field makes next(iter(data)) raise.
Parse(content) ==
    LET f == FrameOf(content)
    IN  IF f = NoPacket
        THEN [packet |-> NoPacket, exc |-> "StopIteration"]
        ELSE IF f.type = "response"
        THEN IF FieldKeys(f) = {}
             THEN [packet |-> NoPacket, exc |-> "InternalError"]
             ELSE [packet |-> f, exc |-> None]
        ELSE IF f.type = "event"
        THEN [packet |-> NoPacket, exc |-> parse_event(FieldKeys(f))]
        ELSE [packet |-> NoPacket, exc |-> "ProtocolError"]

\* ------------------------------------------------------------ the client
\* Variant of _try_action_response that hands the packet to a pending
\* action without comparing ids
try_action_response_any(pend, acts, packet) ==
    IF packet.aid # None /\ packet.aid \in DOMAIN pend
    THEN LET o == pend[CHOOSE id \in DOMAIN pend : id # packet.aid
                                                   \/ DOMAIN pend = {id}]
             r == IF packet.type = "response"
                  THEN process_response(acts[o], packet)
                  ELSE process_event(acts[o], packet)
         IN  [act |-> [acts EXCEPT ![o] = r.a], exc |-> r.exc]
    ELSE [act |-> acts, exc |-> None]

\* Variant of _try_action_response that finds the action by its id among
\* all the actions ever submitted, the earliest first, not in the table
\* of pending actions
try_action_response_byid(pend, acts, packet) ==
    LET S == {o \in DOMAIN acts : /\ ActionIdOf(o) = packet.aid
                                  /\ acts[o].complete_future # "unbound"}
    IN  IF packet.aid # None /\ S # {}
        THEN LET o == IF "A1" \in S THEN "A1" ELSE CHOOSE q \in S : TRUE
                 r == IF packet.type = "response"
                      THEN process_response(acts[o], packet)
                      ELSE process_event(acts[o], packet)
             IN  [act |-> [acts EXCEPT ![o] = r.a], exc |-> r.exc]
        ELSE [act |-> acts, exc |-> None]

\* Variant of _try_action_response that hands the packet to every pending
\* action that is not complete
try_action_response_all(pend, acts, packet) ==
    IF packet.aid # None /\ packet.aid \in DOMAIN pend
    THEN [act |-> [o \in DOMAIN acts |->
                     IF (\E id \in DOMAIN pend : pend[id] = o)
                        /\ ~acts[o].is_complete
                     THEN IF packet.type = "response"
                          THEN process_response(acts[o], packet).a
                          ELSE process_event(acts[o], packet).a
                     ELSE acts[o]],
          exc |-> None]
    ELSE [act |-> acts, exc |-> None]

\* ManagerClient._try_action_response: [act, exc]
try_action_response(pend, acts, packet) ==
    IF packet.aid # None /\ packet.aid \in DOMAIN pend
    THEN LET o == pend[packet.aid]
             r == IF packet.type = "response"
                  THEN process_response(acts[o], packet)
                  ELSE process_event(acts[o], packet)
         IN  [act |-> [acts EXCEPT ![o] = r.a], exc |-> r.exc]
    ELSE [act |-> acts, exc |-> None]

\* Variant of _process_packet that looks for the action of a frame before
\* the parser has accepted the frame
process_packet_early(pend, acts, content) ==
    LET p == Parse(content)
        f == FrameOf(content)
    IN  IF p.exc # None
        THEN [act |-> IF f = NoPacket THEN acts
                      ELSE try_action_response(pend, acts, f).act,
              packet |-> NoPacket, exc |-> p.exc]
        ELSE LET r == try_action_response(pend, acts, p.packet)
             IN  [act |-> r.act,
                  packet |-> IF r.exc = None THEN p.packet ELSE NoPacket,
                  exc |-> r.exc]

\* ManagerClient._process_packet: [act, packet, exc]
process_packet(pend, acts, content) ==
    LET p == Parse(content)
    IN  IF p.exc # None
        THEN [act |-> acts, packet |-> NoPacket, exc |-> p.exc]
        ELSE LET r == try_action_response(pend, acts, p.packet)
             IN  [act |-> r.act,
                  packet |-> IF r.exc = None THEN p.packet ELSE NoPacket,
                  exc |-> r.exc]

\* Variant of _send_packet that leaves the terminator to a later write
send_packet_split(w, sk, id) ==
    IF sk = "none" THEN [wire |-> w, exc |-> "AttributeError"]
    ELSE IF sk = "closed" THEN [wire |-> w, exc |-> None]
    ELSE [wire |-> w \o <<[part |-> "data", aid |-> id]>>, exc |-> None]

\* ManagerClient._send_packet: the chunks given to writer.write; a closed
\* transport drops them, a client that never connected has no _writer
send_packet(w, sk, id) ==
    IF sk = "none" THEN [wire |-> w, exc |-> "AttributeError"]
    ELSE IF sk = "closed" THEN [wire |-> w, exc |-> None]
    ELSE [wire |-> w \o <<[part |-> "data", aid |-> id],
                          [part |-> "term", aid |-> None]>>,
          exc |-> None]

\* Variant of action() that writes the command and does not register it
action_unregistered(pend, acts, w, wr, sk, o) ==
    LET id == ActionIdOf(o)
        same == [pending |-> pend, act |-> acts, wire |-> w, written |-> wr]
    IN  IF id = None
        THEN same @@ [exc |-> "ProgrammingError"]
        ELSE IF id \in DOMAIN pend
        THEN same @@ [exc |-> "ProgrammingError"]
        ELSE LET s == send_packet(w, sk, id)
             IN  [pending |-> pend,
                  act |-> [acts EXCEPT ![o] = bind_loop(@)],
                  wire |-> s.wire,
                  written |-> IF s.wire # w THEN wr \cup {id} ELSE wr,
                  exc |-> s.exc]

\* Variant of action() without the test for an id that is already pending
action_overwrite(pend, acts, w, wr, sk, o) ==
    LET id == ActionIdOf(o)
        same == [pending |-> pend, act |-> acts, wire |-> w, written |-> wr]
    IN  IF id = None
        THEN same @@ [exc |-> "ProgrammingError"]
        ELSE LET s == send_packet(w, sk, id)
             IN  [pending |-> (id :> o) @@ pend,
                  act |-> [acts EXCEPT ![o] = bind_loop(@)],
                  wire |-> s.wire,
                  written |-> IF s.wire # w THEN wr \cup {id} ELSE wr,
                  exc |-> s.exc]

\* ManagerClient.action: [pending, act, wire, written, exc]
action(pend, acts, w, wr, sk, o) ==
    LET id == ActionIdOf(o)
        same == [pending |-> pend, act |-> acts, wire |-> w, written |-> wr]
    IN  IF id = None
        THEN same @@ [exc |-> "ProgrammingError"]
        ELSE IF id \in DOMAIN pend
        THEN same @@ [exc |-> "ProgrammingError"]
        ELSE LET s == send_packet(w, sk, id)
             IN  [pending |-> (id :> o) @@ pend,
                  act |-> [acts EXCEPT ![o] = bind_loop(@)],
                  wire |-> s.wire,
                  written |-> IF s.wire # w THEN wr \cup {id} ELSE wr,
                  exc |-> s.exc]

\* ids of the complete commands the server has received
ServerIds(w) ==
    {w[i].aid : i \in {j \in 1..(Len(w) - 1) :
                          w[j].part = "data" /\ w[j + 1].part = "term"}}

\* ManagerClient._reset: [buffer, pending, written]; _read_task is never
\* set by this client, so there is no reading task to cancel
reset ==
    [buffer |-> <<>>, pending |-> <<>>, written |-> {}]

\* One turn of the loop of ManagerClient.read_packet on buffer buf:
\* a buffered frame is shifted and processed ("done"), otherwise the
\* coroutine goes on to read the socket ("read")
read_packet_turn(buf, pend, acts) ==
    LET g == get_buffered_packet(buf)
    IN  IF g.found
        THEN LET r == process_packet(pend, acts, g.packet)
             IN  [kind |-> "done", buffer |-> g.buffer, act |-> r.act,
                  packet |-> r.packet, exc |-> r.exc,
                  last |-> [packet |-> FrameOf(g.packet), exc |-> r.exc]]
        ELSE [kind |-> "read", buffer |-> buf, act |-> acts,
              packet |-> NoPacket, exc |-> None,
              last |-> [packet |-> NoPacket, exc |-> None]]

\* Variant of the end-of-stream path that closes the writer and keeps the
\* buffer and the table
read_eof_keep ==
    [buffer |-> buffer, pending |-> pending, written |-> written,
     sock |-> "closed", exc |-> "AttributeError", pc |-> "idle"]

\* read_packet when reader.read() returned b'' (client.py:247-249):
\* _handle_disconnect runs _reset and writer.close(), then the lookup of
\* the attribute wait_close on the StreamWriter fails, so the coroutine
\* ends by raising: [buffer, pending, written, sock, exc, pc]
read_eof ==
    [buffer |-> reset.buffer, pending |-> reset.pending,
     written |-> reset.written, sock |-> "closed",
     exc |-> "AttributeError", pc |-> "idle"]

\* Variant of the end of connect() that marks the client connected
\* whatever the login response was
auth_result_any(conn, login) ==
    [connected |-> TRUE, exc |-> None]

\* ManagerClient._auth after action.complete_future is done, and the end
\* of connect(): [connected, exc]
auth_result(conn, login) ==
    IF login.ok # "true"
    THEN [connected |-> conn, exc |-> "AuthenticationError"]
    ELSE [connected |-> TRUE, exc |-> None]

\* read_packet ended by raising exception e
Raised(e) == [packet |-> NoPacket, exc |-> e]

\* Variant of the read that lets a second coroutine wait on the reader
wait_for_data_shared(waiting) == None

\* `await self._reader.read(self._BSIZE)` with nothing to return yet: the
\* coroutine becomes the reader's waiter, and the StreamReader raises
\* RuntimeError when another coroutine is its waiter already
wait_for_data(waiting) == IF waiting THEN "RuntimeError" ELSE None

\* ------------------------------------------------------------------ Init
Init ==
    /\ connected = FALSE
    /\ sock = "none"
    /\ peerClosed = FALSE
    /\ buffer = <<>>
    /\ pending = <<>>
    /\ act = [o \in Acts |-> NewAction]
    /\ wire = <<>>
    /\ written = {}
    /\ inflight = <<>>
    /\ sent = 0
    /\ cpc = "idle"
    /\ cexc = None
    /\ upc = "idle"
    /\ lastCall = [obj |-> None, exc |-> None]
    /\ last = [packet |-> NoPacket, exc |-> None]
    /\ budget = LifeOps
    /\ stored = [calls |-> 0, args |-> 0]
    /\ fr = NoFraming
    /\ fx = NoEval

\* --------------------------------------------------------- the user task
\* The user task builds A1, A2 and A3 in this order and sends each once it
\* has sent the one before; A4 is at hand from the start
Built(o) ==
    CASE o = "A2" -> act["A1"].complete_future # "unbound"
      [] o = "A3" -> act["A2"].complete_future # "unbound"
      [] OTHER -> TRUE

\* await client.action(o): no suspension point inside, one step.  Each
\* Action object is handed to action() while it is fresh, or again while
\* its id is pending.
UserAction(o) ==
    /\ budget > 0
    /\ Built(o)
    /\ \/ act[o].complete_future = "unbound"
       \/ ActionIdOf(o) \in DOMAIN pending
    /\ LET r == action(pending, act, wire, written, sock, o)
       IN  /\ pending' = r.pending
           /\ act' = r.act
           /\ wire' = r.wire
           /\ written' = r.written
           /\ lastCall' = [obj |-> o, exc |-> r.exc]
    /\ budget' = budget - 1
    /\ UNCHANGED <<connected, sock, peerClosed, buffer, inflight, sent, cpc,
                   cexc, upc, last>>
    /\ UNCHANGED stored
    /\ UNCHANGED aux

\* the coroutine of connect() is waiting in reader.read(): for the
\* greeting or for the response to the login
ConnectWaits == cpc \in {"signature", "auth_reading"}

\* await client.read_packet() called by the user task.  A StreamReader
\* lets one coroutine wait for data: read() called while another one is
\* waiting raises RuntimeError
UserRead ==
    /\ upc = "idle"
    /\ LET t == read_packet_turn(buffer, pending, act)
       IN  IF t.kind = "done"
           THEN /\ buffer' = t.buffer
                /\ act' = t.act
                /\ last' = t.last
                /\ UNCHANGED upc
           ELSE /\ UNCHANGED <<buffer, act>>
                /\ IF sock = "none"    \* no self._reader yet
                   THEN last' = Raised("AttributeError") /\ UNCHANGED upc
                   ELSE IF wait_for_data(ConnectWaits) # None
                   THEN /\ last' = Raised(wait_for_data(ConnectWaits))
                        /\ UNCHANGED upc
                   ELSE upc' = "reading" /\ UNCHANGED last
    /\ UNCHANGED <<connected, sock, peerClosed, pending, wire, written,
                   inflight, sent, cpc, cexc, lastCall, budget>>
    /\ UNCHANGED stored
    /\ UNCHANGED aux

\* reader.read() returns the first k bytes to the user task's read_packet
UserDeliver(k) ==
    /\ upc = "reading"
    /\ sock = "open"
    /\ k \in Cuts(inflight) \ {0}
    /\ inflight' = Suffix(inflight, k)
    /\ LET t == read_packet_turn(buffer \o Prefix(inflight, k), pending, act)
       IN  /\ buffer' = t.buffer
           /\ act' = t.act
           /\ IF t.kind = "done"
              THEN /\ upc' = "idle"
                   /\ last' = t.last
              ELSE UNCHANGED <<upc, last>>
    /\ UNCHANGED <<connected, sock, peerClosed, pending, wire, written, sent,
                   cpc, cexc, lastCall, budget>>
    /\ UNCHANGED stored
    /\ UNCHANGED aux

\* reader.read() returns b'' to the user task's read_packet
UserEof ==
    /\ upc = "reading"
    /\ \/ sock = "open" /\ peerClosed /\ inflight = <<>>
       \/ sock = "closed"
    /\ buffer' = read_eof.buffer
    /\ pending' = read_eof.pending
    /\ written' = read_eof.written
    /\ sock' = read_eof.sock
    /\ upc' = read_eof.pc
    /\ last' = Raised(read_eof.exc)
    /\ UNCHANGED <<connected, peerClosed, act, wire, inflight, sent, cpc,
                   cexc, lastCall, budget>>
    /\ UNCHANGED stored
    /\ UNCHANGED aux

\* ------------------------------------------------------------ the server
\* The server sends one frame; it answers only commands it has received
ServerSend(c) ==
    /\ sock = "open"
    /\ ~peerClosed
    /\ budget > 0
    /\ Len(inflight) + 5 <= 5 * MaxUnread
    /\ c.aid \in ServerIds(wire)
    /\ inflight' = inflight \o <<c>> \o Terminator
    /\ sent' = sent + 1
    /\ budget' = budget - 1
    /\ UNCHANGED <<connected, sock, peerClosed, buffer, pending, act, wire,
                   written, cpc, cexc, upc, lastCall, last>>
    /\ UNCHANGED stored
    /\ UNCHANGED aux

\* The server closes the connection, or dies while the first k bytes of
\* what it sent are on their way (before the greeting is read: with the
\* greeting delivered, or with nothing delivered at all)
ServerClose(k) ==
    /\ sock = "open"
    /\ cpc # "opening"
    /\ ~peerClosed
    /\ k \in IF cpc = "signature" THEN {0, Len(inflight)} ELSE Cuts(inflight)
    /\ peerClosed' = TRUE
    /\ inflight' = Prefix(inflight, k)
    /\ UNCHANGED <<connected, sock, buffer, pending, act, wire, written, sent,
                   cpc, cexc, upc, lastCall, last, budget>>
    /\ UNCHANGED stored
    /\ UNCHANGED aux

\* ---------------------------------------------------- the connect() task
\* _auth from the point where read_packet returned the login response
AuthFinish(login) ==
    IF FutDone(login.complete_future)
    THEN /\ connected' = auth_result(connected, login).connected
         /\ cexc' = auth_result(connected, login).exc
         /\ cpc' = "idle"
    ELSE /\ cpc' = "auth_wait"
         /\ UNCHANGED <<connected, cexc>>

\* Variant of the start of connect() without the test of the connected
\* flag
connect_begin_unguarded(isconn, buf, pend, wr, cn) ==
    [exc |-> None, buffer |-> reset.buffer, pending |-> reset.pending,
     written |-> reset.written, pc |-> "opening",
     conn |-> [calls |-> cn.calls + 1, args |-> cn.calls + 1]]

\* connect() up to its first await (client.py:327-340), as call number
\* cn.calls + 1: [exc, buffer, pending, written, pc, conn]; an accepted
\* call resets the client and stores its own host, port and credentials
connect_begin(isconn, buf, pend, wr, cn) ==
    IF isconn
    THEN [exc |-> "ProgrammingError", buffer |-> buf, pending |-> pend,
          written |-> wr, pc |-> "idle",
          conn |-> [cn EXCEPT !.calls = @ + 1]]
    ELSE [exc |-> None, buffer |-> reset.buffer, pending |-> reset.pending,
          written |-> reset.written, pc |-> "opening",
          conn |-> [calls |-> cn.calls + 1, args |-> cn.calls + 1]]

ConnectCall ==
    /\ cpc = "idle"
    /\ budget > 0
    /\ budget' = budget - 1
    /\ LET r == connect_begin(connected, buffer, pending, written, stored)
       IN  /\ cexc' = r.exc
           /\ buffer' = r.buffer
           /\ pending' = r.pending
           /\ written' = r.written
           /\ cpc' = r.pc
           /\ stored' = r.conn
    /\ UNCHANGED <<connected, sock, peerClosed, act, wire, inflight, sent,
                   upc, lastCall, last>>
    /\ UNCHANGED aux

\* asyncio.open_connection succeeds: a new reader and writer, the server
\* greets (client.py:115-136); the user task is not inside read_packet
\* when the reader is replaced
ConnectOpen ==
    /\ cpc = "opening"
    /\ upc = "idle"
    /\ sock' = "open"
    /\ peerClosed' = FALSE
    /\ wire' = <<>>
    /\ inflight' = <<SIG, CR, LF>>
    /\ cpc' = "signature"
    /\ UNCHANGED <<connected, buffer, pending, act, written, sent, cexc, upc,
                   lastCall, budget, last>>
    /\ UNCHANGED stored
    /\ UNCHANGED aux

\* asyncio.open_connection fails or times out: ConnectError
ConnectFail ==
    /\ cpc = "opening"
    /\ cpc' = "idle"
    /\ cexc' = "ConnectError"
    /\ UNCHANGED <<connected, sock, peerClosed, buffer, pending, act, wire,
                   written, inflight, sent, upc, lastCall, budget, last>>
    /\ UNCHANGED stored
    /\ UNCHANGED aux

\* _read_remote_signature gets the first k bytes, then _auth builds the
\* LoginAction and sends it with action() (client.py:138-149, 291-292)
ConnectSignature(k) ==
    /\ cpc = "signature"
    /\ k \in 1..Len(inflight)
    /\ inflight' = Suffix(inflight, k)
    /\ LET r == action(pending, [act EXCEPT ![LoginAct] = NewAction], wire,
                       written, sock, LoginAct)
       IN  /\ pending' = r.pending
           /\ act' = r.act
           /\ wire' = r.wire
           /\ written' = r.written
           /\ IF r.exc = None
              THEN cpc' = "auth" /\ UNCHANGED cexc
              ELSE cpc' = "idle" /\ cexc' = r.exc
    /\ UNCHANGED <<connected, sock, peerClosed, buffer, sent, upc, lastCall,
                   budget, last>>
    /\ UNCHANGED stored
    /\ UNCHANGED aux

\* _read_remote_signature reads b'': ProtocolError
ConnectSignatureEof ==
    /\ cpc = "signature"
    /\ inflight = <<>>
    /\ peerClosed
    /\ cpc' = "idle"
    /\ cexc' = "ProtocolError"
    /\ UNCHANGED <<connected, sock, peerClosed, buffer, pending, act, wire,
                   written, inflight, sent, upc, lastCall, budget, last>>
    /\ UNCHANGED stored
    /\ UNCHANGED aux

\* What _auth does with the outcome t of one read_packet turn
\* (client.py:293-302)
AuthTurn(t) ==
    /\ buffer' = t.buffer
    /\ act' = t.act
    /\ last' = IF t.kind = "done" THEN t.last
               ELSE IF wait_for_data(upc = "reading"
                                     /\ cpc # "auth_reading") # None
               THEN Raised(wait_for_data(TRUE))
               ELSE last
    /\ IF t.kind = "read"
       THEN IF wait_for_data(upc = "reading" /\ cpc # "auth_reading") # None
            THEN /\ cpc' = "idle"
                 /\ cexc' = wait_for_data(TRUE)
                 /\ UNCHANGED connected
            ELSE /\ cpc' = "auth_reading"
                 /\ UNCHANGED <<connected, cexc>>
       ELSE IF t.exc # None
       THEN /\ cpc' = "idle"
            /\ cexc' = t.exc
            /\ UNCHANGED connected
       ELSE IF t.packet.type = "response"
               /\ t.packet.aid = ActionIdOf(LoginAct)
       THEN AuthFinish(t.act[LoginAct])
       ELSE /\ cpc' = "auth"
            /\ UNCHANGED <<connected, cexc>>

\* _auth calls read_packet
AuthRead ==
    /\ cpc = "auth"
    /\ AuthTurn(read_packet_turn(buffer, pending, act))
    /\ UNCHANGED <<sock, peerClosed, pending, wire, written, inflight, sent,
                   upc, lastCall, budget>>
    /\ UNCHANGED stored
    /\ UNCHANGED aux

\* reader.read() returns the first k bytes to _auth's read_packet
AuthDeliver(k) ==
    /\ cpc = "auth_reading"
    /\ sock = "open"
    /\ k \in Cuts(inflight) \ {0}
    /\ inflight' = Suffix(inflight, k)
    /\ AuthTurn(read_packet_turn(buffer \o Prefix(inflight, k), pending,
                                 act))
    /\ UNCHANGED <<sock, peerClosed, pending, wire, written, sent, upc,
                   lastCall, budget>>
    /\ UNCHANGED stored
    /\ UNCHANGED aux

\* reader.read() returns b'' to _auth's read_packet
AuthEof ==
    /\ cpc = "auth_reading"
    /\ \/ sock = "open" /\ peerClosed /\ inflight = <<>>
       \/ sock = "closed"
    /\ buffer' = read_eof.buffer
    /\ pending' = read_eof.pending
    /\ written' = read_eof.written
    /\ sock' = read_eof.sock
    /\ cpc' = read_eof.pc
    /\ cexc' = read_eof.exc
    /\ last' = Raised(read_eof.exc)
    /\ UNCHANGED <<connected, peerClosed, act, wire, inflight, sent, upc,
                   lastCall, budget>>
    /\ UNCHANGED stored
    /\ UNCHANGED aux

\* `await action.complete_future` resumes once the future has a result
AuthWake ==
    /\ cpc = "auth_wait"
    /\ FutDone(act[LoginAct].complete_future)
    /\ AuthFinish(act[LoginAct])
    /\ UNCHANGED <<sock, peerClosed, buffer, pending, act, wire, written,
                   inflight, sent, upc, lastCall, budget, last>>
    /\ UNCHANGED stored
    /\ UNCHANGED aux

\* ------------------------------------------------------------------ Next
MaxRead == 5 * (MaxUnread + 1)

Next ==
    \/ \E o \in UserActs : UserAction(o)
    \/ UserRead
    \/ \E k \in 1..MaxRead : UserDeliver(k)
    \/ UserEof
    \/ \E c \in Frames(sent + 1) : ServerSend(c)
    \/ \E k \in 0..MaxRead : ServerClose(k)
    \/ ConnectCall
    \/ ConnectOpen
    \/ ConnectFail
    \/ \E k \in 1..3 : ConnectSignature(k)
    \/ ConnectSignatureEof
    \/ AuthRead
    \/ \E k \in 1..MaxRead : AuthDeliver(k)
    \/ AuthEof
    \/ AuthWake

Spec == Init /\ [][Next]_vars

\* ------------------------------------------------------------ a session
\* The state in which a successful connect() leaves the client: the login
\* command is on the wire, its Success response has been processed, the
\* LoginAction is still in the table of pending actions.
LoginDone ==
    process_response(bind_loop(NewAction),
        [type |-> "response", value |-> "Success",
         aid |-> ActionIdOf(LoginAct), n |-> 1]).a

SessionStart ==
    /\ connected = TRUE
    /\ sock = "open"
    /\ peerClosed = FALSE
    /\ buffer = <<>>
    /\ pending = (ActionIdOf(LoginAct) :> LoginAct)
    /\ act = [o \in Acts |-> IF o = LoginAct THEN LoginDone ELSE NewAction]
    /\ wire = send_packet(<<>>, "open", ActionIdOf(LoginAct)).wire
    /\ written = {ActionIdOf(LoginAct)}
    /\ inflight = <<>>
    /\ sent = 1
    /\ cpc = "idle"
    /\ cexc = None
    /\ upc = "idle"
    /\ lastCall = [obj |-> None, exc |-> None]
    /\ last = [packet |-> LoginDone.response, exc |-> None]
    /\ stored = [calls |-> 1, args |-> 1]

InitSession ==
    /\ SessionStart
    /\ budget = MaxOps
    /\ fr = NoFraming
    /\ fx = NoEval

NextSession ==
    \/ \E o \in UserActs : UserAction(o)
    \/ UserRead
    \/ \E k \in 1..MaxRead : UserDeliver(k)
    \/ UserEof
    \/ \E c \in Frames(sent + 1) : ServerSend(c)
    \/ \E k \in 0..MaxRead : ServerClose(k)

SpecSession == InitSession /\ [][NextSession]_vars

\* connect() does reach the state a session starts in
NotSessionStart == ~SessionStart

\* ----------------------------------------------------- after a teardown
\* The state in which a close by the peer leaves the client while the
\* commands A1 and A2 are pending: before the greeting was read (connect()
\* has raised, the client is not connected) or after a successful login.
Orphans == {"A1", "A2"}

\* what the client has written when it has sent the commands of list l
RECURSIVE WireOf(_)
WireOf(l) ==
    IF l = <<>> THEN <<>>
    ELSE send_packet(WireOf(Prefix(l, Len(l) - 1)), "open",
                     ActionIdOf(l[Len(l)])).wire

OrphanStart(conn) ==
    /\ connected = conn
    /\ sock = "closed"
    /\ peerClosed = TRUE
    /\ buffer = read_eof.buffer
    /\ pending = read_eof.pending
    /\ act = [o \in Acts |->
                IF o \in Orphans THEN bind_loop(NewAction)
                ELSE IF o = LoginAct /\ conn THEN LoginDone
                ELSE NewAction]
    /\ wire = IF conn THEN WireOf(<<LoginAct, "A1", "A2">>)
              ELSE WireOf(<<"A1", "A2">>)
    /\ written = read_eof.written
    /\ inflight = <<>>
    /\ sent = IF conn THEN 1 ELSE 0
    /\ cpc = "idle"
    /\ cexc = IF conn THEN None ELSE "ProtocolError"
    /\ upc = "idle"
    /\ lastCall = [obj |-> "A2", exc |-> None]
    /\ last = Raised(read_eof.exc)
    /\ stored = [calls |-> 1, args |-> 1]

InitOrphan ==
    /\ \E conn \in BOOLEAN : OrphanStart(conn)
    /\ budget = LifeOps
    /\ fr = NoFraming
    /\ fx = NoEval

SpecOrphan == InitOrphan /\ [][Next]_vars

\* the client does reach both states, the first from SessionStart
NotOrphanStart == ~(OrphanStart(TRUE) \/ OrphanStart(FALSE))

\* ------------------------------------------------------------- framing
\* A connected client and a stream of frames that the server has sent
\* whole; the user task calls read_packet again and again and the reader
\* hands the stream over in chunks of any size.
MaxStream == 2      \* frames of the stream

\* the i-th frame of a stream: a response to a command that is not
\* pending, a response to the login, a notification
StreamFrames(n) ==
    {[type |-> "response", value |-> "Success", aid |-> "a", n |-> n],
     [type |-> "response", value |-> "Error",
      aid |-> ActionIdOf(LoginAct), n |-> n],
     [type |-> "event", value |-> "Evt", aid |-> "a", n |-> n]}

\* what stands before the terminator: a frame, nothing, a frame after or
\* before a stray line end
FrameContents(n) ==
    {<<f>> : f \in StreamFrames(n)}
    \cup {<<>>,
          <<CR, LF, [type |-> "response", value |-> "Success",
                     aid |-> "a", n |-> n]>>,
          <<[type |-> "response", value |-> "Success",
             aid |-> "a", n |-> n], CR, LF>>}

RECURSIVE StreamsOf(_, _)
StreamsOf(k, n) ==
    IF k = 0 THEN {<<>>}
    ELSE {c \o Terminator \o r :
            c \in FrameContents(n), r \in StreamsOf(k - 1, n + 1)}

\* streams of up to MaxStream frames, ending at a terminator or inside
\* the next one
FramingStreams ==
    {st \o tl : st \in UNION {StreamsOf(k, 2) : k \in 0..MaxStream},
                tl \in {<<>>, <<CR, LF, CR>>}}

MaxStreamLen == 7 * MaxStream + 3

FramingActs == [o \in Acts |-> IF o = LoginAct THEN LoginDone ELSE NewAction]

FramingState ==
    /\ connected = TRUE
    /\ sock = "open"
    /\ peerClosed = FALSE
    /\ buffer = <<>>
    /\ pending = (ActionIdOf(LoginAct) :> LoginAct)
    /\ act = FramingActs
    /\ wire = send_packet(<<>>, "open", ActionIdOf(LoginAct)).wire
    /\ written = {ActionIdOf(LoginAct)}
    /\ sent = 1
    /\ cpc = "idle"
    /\ cexc = None
    /\ upc = "idle"
    /\ lastCall = [obj |-> None, exc |-> None]
    /\ last = [packet |-> LoginDone.response, exc |-> None]
    /\ stored = [calls |-> 1, args |-> 1]
    /\ budget = 0
    /\ \E st \in FramingStreams :
          /\ inflight = st
          /\ fr = [stream |-> st, out |-> <<>>, reads |-> 0]

InitFraming ==
    /\ FramingState
    /\ fx = NoEval

\* read_packet is called, or resumes after a read: one turn of its loop
FramingTurn(buf) ==
    LET t == read_packet_turn(buf, pending, act)
    IN  /\ buffer' = t.buffer
        /\ act' = t.act
        /\ IF t.kind = "done"
           THEN /\ upc' = "idle"
                /\ last' = t.last
                /\ fr' = [fr EXCEPT !.out = Append(@, t.last),
                                    !.reads = @ + (IF buf = buffer THEN 0
                                                   ELSE 1)]
           ELSE /\ upc' = "reading"
                /\ last' = last
                /\ fr' = [fr EXCEPT !.reads = @ + (IF buf = buffer THEN 0
                                                   ELSE 1)]

\* the user task calls read_packet
FramingRead ==
    /\ upc = "idle"
    /\ FramingTurn(buffer)
    /\ UNCHANGED <<connected, sock, peerClosed, pending, wire, written,
                   inflight, sent, cpc, cexc, lastCall, budget, stored, fx>>

\* reader.read() returns the next k bytes of the stream
FramingDeliver(k) ==
    /\ upc = "reading"
    /\ k \in 1..Len(inflight)
    /\ inflight' = Suffix(inflight, k)
    /\ FramingTurn(buffer \o Prefix(inflight, k))
    /\ UNCHANGED <<connected, sock, peerClosed, pending, wire, written, sent,
                   cpc, cexc, lastCall, budget, stored, fx>>

NextFraming ==
    \/ FramingRead
    \/ \E k \in 1..MaxStreamLen : FramingDeliver(k)

SpecFraming == InitFraming /\ [][NextFraming]_vars

\* What successive read_packet calls handle when buf arrived in one read
RECURSIVE RefRun(_, _, _)
RefRun(buf, pend, acts) ==
    LET t == read_packet_turn(buf, pend, acts)
    IN  IF t.kind = "done"
        THEN <<t.last>> \o RefRun(t.buffer, pend, t.act)
        ELSE <<>>

\* -------------------------------------------------------------- parser
\* Text is a sequence of tokens [w, c]: a word w written in letter case c
\* ("lower", "cap" = first letter upper, "mixed"), or one of the
\* characters space, colon, carriage return, line feed (c = "-").
W(w, c) == [w |-> w, c |-> c]
TSp == W(" ", "-")
TColon == W(":", "-")
TCr == W("CR", "-")
TLf == W("LF", "-")

\* Parser._nl
Nl == <<TCr, TLf>>

\* str.lower and str.capitalize
lower(s) ==
    [i \in 1..Len(s) |-> IF s[i].c = "-" THEN s[i] ELSE W(s[i].w, "lower")]

capitalize(s) ==
    [i \in 1..Len(s) |->
        IF s[i].c = "-" THEN s[i]
        ELSE IF i = 1 THEN W(s[i].w, "cap") ELSE W(s[i].w, "lower")]

\* Parser._header_key_normalize
header_key_normalize(k) == capitalize(lower(k))

\* str.strip / bytes.strip
TIsWs(t) == t \in {TSp, TCr, TLf}

RECURSIVE TLStrip(_)
TLStrip(s) == IF s # <<>> /\ TIsWs(Head(s)) THEN TLStrip(Tail(s)) ELSE s

RECURSIVE TRStrip(_)
TRStrip(s) ==
    IF s # <<>> /\ TIsWs(s[Len(s)]) THEN TRStrip(Prefix(s, Len(s) - 1))
    ELSE s

TStrip(s) == TRStrip(TLStrip(s))

\* bytes.split(cls._nl): the lines of a text
RECURSIVE SplitNl(_)
SplitNl(s) ==
    LET at == {i \in 1..(Len(s) - 1) : SubSeq(s, i, i + 1) = Nl}
    IN  IF at = {} THEN <<s>>
        ELSE LET i == CHOOSE j \in at : \A l \in at : j <= l
             IN  <<Prefix(s, i - 1)>> \o SplitNl(Suffix(s, i + 1))

\* line.split(b':', 1): <<line>> or <<before, after>>
SplitColon(line) ==
    LET at == {i \in 1..Len(line) : line[i] = TColon}
    IN  IF at = {} THEN <<line>>
        ELSE LET i == CHOOSE j \in at : \A l \in at : j <= l
             IN  <<Prefix(line, i - 1), Suffix(line, i)>>

\* A dict is the sequence of its items [k, v] in insertion order.
HasKey(d, k) == \E i \in 1..Len(d) : d[i].k = k

\* d[k] = v
DictSet(d, k, v) ==
    IF HasKey(d, k)
    THEN [i \in 1..Len(d) |-> IF d[i].k = k THEN [k |-> k, v |-> v] ELSE d[i]]
    ELSE Append(d, [k |-> k, v |-> v])

RECURSIVE DictSetAll(_, _, _)
\* for k, v in items: d[f(k)] = v, with f = lower when low is TRUE
DictSetAll(d, items, low) ==
    IF items = <<>> THEN d
    ELSE DictSetAll(DictSet(d, IF low THEN lower(Head(items).k)
                                ELSE Head(items).k, Head(items).v),
                    Tail(items), low)

NoMessage == [type |-> <<>>, data |-> <<>>]

\* Packet.__init__: [packet, exc]; a packet is [type, data], the first
\* item of data being the main header
PacketInit(packet_type, value, data) ==
    IF data = <<>>
    THEN [packet |-> NoMessage, exc |-> "InternalError"]
    ELSE IF \E i \in 1..Len(data) : lower(data[i].k) = lower(packet_type)
    THEN [packet |-> NoMessage, exc |-> "InternalError"]
    ELSE [packet |->
             [type |-> lower(packet_type),
              data |-> DictSetAll(<<[k |-> packet_type, v |-> value]>>,
                                  data, TRUE)],
          exc |-> None]

\* Parser.serialize_outgoing_packet
RECURSIVE JoinNl(_)
JoinNl(lines) ==
    IF lines = <<>> THEN <<>>
    ELSE IF Len(lines) = 1 THEN Head(lines)
    ELSE Head(lines) \o Nl \o JoinNl(Tail(lines))

serialize_outgoing_packet(packet) ==
    JoinNl([i \in 1..Len(packet.data) |->
               header_key_normalize(packet.data[i].k) \o <<TColon, TSp>>
               \o packet.data[i].v])

\* the data dict that parse_incoming_packet fills from the lines
RECURSIVE LinesToDict(_, _)
LinesToDict(lines, d) ==
    IF lines = <<>> THEN d
    ELSE LET parts == SplitColon(Head(lines))
         IN  IF Len(parts) # 2 THEN LinesToDict(Tail(lines), d)
             ELSE LinesToDict(Tail(lines),
                              DictSet(d, TStrip(parts[1]), TStrip(parts[2])))

\* the name of a key, as parse_event compares it
KeyNames(d) == {d[i].k[1].w : i \in {j \in 1..Len(d) : Len(d[j].k) = 1}}

\* Parser.parse_incoming_packet: [packet, exc]
parse_incoming_packet(content) ==
    LET data == LinesToDict(SplitNl(TStrip(content)), <<>>)
    IN  IF data = <<>>
        THEN [packet |-> NoMessage, exc |-> "StopIteration"]
        ELSE LET packet_type == lower(data[1].k)
                 rest == Tail(data)
             IN  IF packet_type = <<W("response", "lower")>>
                 THEN PacketInit(packet_type, data[1].v, rest)
                 ELSE IF packet_type = <<W("event", "lower")>>
                 THEN LET ev == PacketInit(packet_type, data[1].v, rest)
                      IN  IF ev.exc # None THEN ev
                          ELSE [packet |-> NoMessage,
                                exc |-> parse_event(KeyNames(ev.packet.data))]
                 ELSE [packet |-> NoMessage, exc |-> "ProtocolError"]

\* The client as constructed and left alone, while a function is studied.
Unconnected ==
    /\ connected = FALSE
    /\ sock = "none"
    /\ peerClosed = FALSE
    /\ buffer = <<>>
    /\ pending = <<>>
    /\ act = [o \in Acts |-> NewAction]
    /\ wire = <<>>
    /\ written = {}
    /\ inflight = <<>>
    /\ sent = 0
    /\ cpc = "idle"
    /\ cexc = None
    /\ upc = "idle"
    /\ lastCall = [obj |-> None, exc |-> None]
    /\ last = [packet |-> NoPacket, exc |-> None]
    /\ budget = 0
    /\ stored = [calls |-> 0, args |-> 0]
    /\ fr = NoFraming

MaxFields == 2      \* fields given to a constructor

MsgKinds == {"action", "response", "event"}

MainValue(kind) ==
    <<W(CASE kind = "action" -> "Ping"
          [] kind = "response" -> "Success"
          [] OTHER -> "Evt", "cap")>>

\* keys as a caller writes them, and values: plain, padded, holding a
\* colon, holding a line break
PKeys == {<<W("actionid", "mixed")>>, <<W("message", "lower")>>,
          <<W("type", "cap")>>}

PValues == {<<W("v", "lower")>>,
            <<TSp, W("v", "lower")>>,
            <<W("v", "lower"), TColon, TSp, W("w", "lower")>>,
            <<W("v", "lower"), TCr, TLf, W("k", "lower"), TColon, TSp,
              W("w", "lower")>>}

PData ==
    UNION {{d \in [1..n -> [k : PKeys, v : PValues]] :
               \A i, j \in 1..n : d[i].k = d[j].k => i = j} :
           n \in 1..MaxFields}

\* Action(value, data), Response(value, data), Event(value, data)
Build(kind, data) ==
    LET r == PacketInit(<<W(kind, "lower")>>, MainValue(kind), data)
        aid == <<W("actionid", "lower")>>
    IN  IF kind = "action" /\ r.exc = None /\ ~HasKey(r.packet.data, aid)
        THEN [r EXCEPT !.packet.data =
                 DictSet(@, aid, <<W("uuid", "lower")>>)]
        ELSE r

NoResult == [packet |-> NoMessage, exc |-> None]

InitParser ==
    /\ Unconnected
    /\ \E kind \in MsgKinds, d \in PData :
          /\ Build(kind, d).exc = None
          /\ fx = [pc |-> "built", msg |-> Build(kind, d).packet,
                   text |-> <<>>, res |-> NoResult]

\* Parser.serialize_outgoing_packet(msg)
Serialize ==
    /\ fx.pc = "built"
    /\ fx' = [fx EXCEPT !.pc = "serialized",
                        !.text = serialize_outgoing_packet(fx.msg)]
    /\ UNCHANGED <<cvars, fr>>

\* Parser.parse_incoming_packet(text)
ParseBack ==
    /\ fx.pc = "serialized"
    /\ fx' = [fx EXCEPT !.pc = "parsed",
                        !.res = parse_incoming_packet(fx.text)]
    /\ UNCHANGED <<cvars, fr>>

NextParser ==
    \/ Serialize
    \/ ParseBack

SpecParser == InitParser /\ [][NextParser]_vars

\* the field/value pairs of a message, keys in lower case
FieldSet(p) ==
    {[k |-> lower(p.data[i].k), v |-> p.data[i].v] : i \in 2..Len(p.data)}

\* same kind, same main value, same fields up to key casing
Equivalent(p, q) ==
    /\ p.type = q.type
    /\ p.data # <<>> /\ q.data # <<>>
    /\ p.data[1].v = q.data[1].v
    /\ FieldSet(p) = FieldSet(q)

\* -------------------------------------------------------------- filter
\* Python values: a str or an int
Str(x) == [t |-> "str", s |-> x, n |-> 0]
Num(x) == [t |-> "int", s |-> "", n |-> x]
NoValue == [t |-> "none", s |-> "", n |-> 0]

\* str.lower on the strings used
LowerStr(x) ==
    CASE x = "X" -> "x"
      [] x = "A" -> "a"
      [] x = "B" -> "b"
      [] x = "Evt" -> "evt"
      [] OTHER -> x

\* int(str): the strings "1" and "7" convert, the others raise ValueError
IsDigits(x) == x \in {"1", "7"}
IntOfStr(x) == IF x = "1" THEN 1 ELSE 7

\* the order of str
StrRank(x) ==
    CASE x = "1" -> 1
      [] x = "7" -> 2
      [] x = "X" -> 3
      [] x = "evt" -> 4
      [] OTHER -> 5

\* an event: its name and its fields (None when absent)
FilterEvents ==
    {[value |-> "Evt", f |-> [a |-> va, b |-> vb]] :
        va \in {None, "1", "7", "X"}, vb \in {None, "1"}}

\* the field expressions: F(name, strict), Int(field, strict), Lower(field)
F(name, strict) ==
    [cls |-> "F", name |-> LowerStr(name), strict |-> strict]
IntOf(field, strict) ==
    [cls |-> "Int", name |-> field.name, strict |-> strict, field |-> field]
Lower(field) ==
    [cls |-> "Lower", name |-> field.name, field |-> field]

\* the checks: CheckMethod(other_value, method_name), CheckRe(expression)
CheckMethod(other_value, method_name) ==
    [cls |-> "CheckMethod", other_value |-> other_value,
     method_name |-> method_name]
CheckRe(expression) == [cls |-> "CheckRe", expression |-> expression]

\* the conditions
Cond(field, checker) ==
    [cls |-> "Cond", field |-> field, checker |-> checker]
CondGroup(c1, c2, method_name) ==
    [cls |-> "CondGroup", c1 |-> c1, c2 |-> c2, method_name |-> method_name]
E(name) == [cls |-> "E", name |-> LowerStr(name)]
C(cname, invert) == [cls |-> "C", cname |-> cname, invert |-> invert]

\* the result of a call: a value or an exception
Ret(v) == [v |-> v, exc |-> None]
Raise(e) == [v |-> NoValue, exc |-> e]

\* IField.val: F.val, Int.val, Lower.val. Lower.val of a value that is
\* not a str executes "raise ProgrammingError": the class is instantiated
\* without its message argument, which raises TypeError.
RECURSIVE val(_, _)
val(field, event) ==
    IF field.cls = "F"
    THEN IF event.f[field.name] # None THEN Ret(Str(event.f[field.name]))
         ELSE IF field.strict THEN Raise("Break") ELSE Raise("Continue")
    ELSE LET inner == val(field.field, event)
         IN  IF inner.exc # None THEN inner
             ELSE IF field.cls = "Int"
             THEN IF inner.v.t = "int" THEN inner
                  ELSE IF IsDigits(inner.v.s)
                  THEN Ret(Num(IntOfStr(inner.v.s)))
                  ELSE IF field.strict THEN Raise("Break")
                  ELSE Raise("Continue")
             ELSE IF inner.v.t = "str" THEN Ret(Str(LowerStr(inner.v.s)))
                  ELSE Raise("TypeError")

\* the results of conditions: "True", "False", or "NotImplemented", which
\* the comparison methods of str and int return for an operand of the
\* other type
PyBool(b) == IF b THEN "True" ELSE "False"

\* getattr(value, method_name)(other_value)
Compare(value, method_name, other) ==
    IF value.t # other.t THEN "NotImplemented"
    ELSE LET x == IF value.t = "int" THEN value.n ELSE StrRank(value.s)
             y == IF other.t = "int" THEN other.n ELSE StrRank(other.s)
         IN  PyBool(CASE method_name = "__eq__" -> value = other
                      [] method_name = "__ne__" -> value # other
                      [] method_name = "__lt__" -> x < y
                      [] method_name = "__gt__" -> x > y
                      [] method_name = "__le__" -> x <= y
                      [] OTHER -> x >= y)

\* re.match for the expression used: one or more digits
ReMatch(expression, x) == IsDigits(x)

\* CheckMethod.check and CheckRe.check: [r, exc]
checker_check(checker, value) ==
    IF checker.cls = "CheckMethod"
    THEN [r |-> Compare(value, checker.method_name, checker.other_value),
          exc |-> None]
    ELSE IF value.t # "str" THEN [r |-> "-", exc |-> "ProgrammingError"]
    ELSE [r |-> PyBool(ReMatch(checker.expression, value.s)), exc |-> None]

\* Cond.check with Continue left uncaught
cond_check_uncaught(c, event) ==
    LET v == val(c.field, event)
    IN  IF v.exc # None THEN [r |-> "-", exc |-> v.exc]
        ELSE checker_check(c.checker, v.v)

\* Cond.check
cond_check(c, event) ==
    LET v == val(c.field, event)
    IN  IF v.exc = "Continue" THEN [r |-> "False", exc |-> None]
        ELSE IF v.exc # None THEN [r |-> "-", exc |-> v.exc]
        ELSE checker_check(c.checker, v.v)

\* E.check
exists_check(c, event) ==
    [r |-> PyBool(event.f[c.name] # None), exc |-> None]

\* C.check, for a class given by name
class_check(c, event) ==
    LET res == LowerStr(event.value) = LowerStr(c.cname)
    IN  [r |-> PyBool(IF c.invert THEN ~res ELSE res), exc |-> None]

\* bool(r), as the if statements of CondGroup.check take it
Truthy(r) == r # "False"

\* CondGroup.check: c2 is evaluated unless r1 decides
second_needed(method_name, r1) ==
    /\ ~(~Truthy(r1) /\ method_name = "__and__")
    /\ ~(Truthy(r1) /\ method_name = "__or__")

\* getattr(r1, method_name)(r2)
group_method(method_name, r1, r2) ==
    IF r1 = "NotImplemented" THEN [r |-> "-", exc |-> "AttributeError"]
    ELSE IF r2 = "NotImplemented" THEN [r |-> "NotImplemented", exc |-> None]
    ELSE [r |-> PyBool(IF method_name = "__and__"
                       THEN r1 = "True" /\ r2 = "True"
                       ELSE r1 = "True" \/ r2 = "True"),
          exc |-> None]

\* ICond.check: [r, exc, log], log being the conditions and groups whose
\* check was called, in order, each named by its path from the root
\* (1 = c1, 2 = c2)
RECURSIVE check(_, _, _)
check(c, event, path) ==
    IF c.cls = "CondGroup"
    THEN LET r1 == check(c.c1, event, Append(path, 1))
         IN  IF r1.exc # None THEN [r1 EXCEPT !.log = <<path>> \o r1.log]
             ELSE IF ~second_needed(c.method_name, r1.r)
             THEN [r |-> PyBool(c.method_name = "__or__"), exc |-> None,
                   log |-> <<path>> \o r1.log]
             ELSE LET r2 == check(c.c2, event, Append(path, 2))
                      m == group_method(c.method_name, r1.r, r2.r)
                  IN  IF r2.exc # None
                      THEN [r2 EXCEPT !.log = <<path>> \o r1.log \o r2.log]
                      ELSE [r |-> m.r, exc |-> m.exc,
                            log |-> <<path>> \o r1.log \o r2.log]
    ELSE LET r == IF c.cls = "Cond" THEN cond_check(c, event)
                  ELSE IF c.cls = "E" THEN exists_check(c, event)
                  ELSE class_check(c, event)
         IN  [r |-> r.r, exc |-> r.exc, log |-> <<path>>]

\* Filter.check with Break left uncaught
filter_check_uncaught(condition, event) == check(condition, event, <<>>)

\* Filter.check
filter_check(condition, event) ==
    LET r == check(condition, event, <<>>)
    IN  IF r.exc = "Break" THEN [r EXCEPT !.r = "False", !.exc = None]
        ELSE r

MaxConds == 2       \* conditions of a filter tree

\* the conditions studied
Conds ==
    {Cond(IntOf(F("a", FALSE), FALSE), CheckMethod(Num(5), "__gt__")),
     Cond(IntOf(F("b", FALSE), FALSE), CheckMethod(Num(2), "__lt__")),
     Cond(IntOf(F("a", FALSE), TRUE), CheckMethod(Num(5), "__gt__")),
     Cond(F("a", TRUE), CheckMethod(Str("1"), "__eq__")),
     Cond(F("b", TRUE), CheckMethod(Str("1"), "__eq__")),
     Cond(F("a", FALSE), CheckMethod(Num(5), "__gt__")),
     Cond(Lower(F("A", FALSE)), CheckMethod(Str("x"), "__eq__")),
     Cond(Lower(IntOf(F("a", FALSE), FALSE)), CheckMethod(Str("1"), "__eq__")),
     Cond(F("a", FALSE), CheckRe("[0-9]+")),
     Cond(IntOf(F("a", FALSE), FALSE), CheckRe("[0-9]+")),
     E("B"),
     C("evt", FALSE),
     C("Evt", TRUE)}

\* the trees of exactly n conditions
RECURSIVE Trees(_)
Trees(n) ==
    IF n = 1 THEN Conds
    ELSE UNION {{CondGroup(l, r, m) :
                    l \in Trees(k), r \in Trees(n - k),
                    m \in {"__and__", "__or__"}} :
                k \in 1..(n - 1)}

FilterTrees == UNION {Trees(n) : n \in 1..MaxConds}

NoCheck == [r |-> "-", exc |-> None, log |-> <<>>]

InitFilter ==
    /\ Unconnected
    /\ \E c \in FilterTrees, ev \in FilterEvents :
          fx = [pc |-> "built", condition |-> c, event |-> ev,
                res |-> NoCheck]

\* Filter(condition).check(event)
FilterCheck ==
    /\ fx.pc = "built"
    /\ fx' = [fx EXCEPT !.pc = "checked",
                        !.res = filter_check(fx.condition, fx.event)]
    /\ UNCHANGED <<cvars, fr>>

NextFilter == FilterCheck

SpecFilter == InitFilter /\ [][NextFilter]_vars

\* the condition at a path of a tree
RECURSIVE NodeAt(_, _)
NodeAt(c, path) ==
    IF path = <<>> THEN c
    ELSE NodeAt(IF Head(path) = 1 THEN c.c1 ELSE c.c2, Tail(path))

\* how many times the check of the condition at a path was called
Evaluations(log, path) ==
    Cardinality({i \in 1..Len(log) : log[i] = path})

\* the F of a field expression
RECURSIVE BaseField(_)
BaseField(field) ==
    IF field.cls = "F" THEN field ELSE BaseField(field.field)

\* a condition on a field of the given strictness that the event lacks
MissingField(c, event, strict) ==
    /\ c.cls = "Cond"
    /\ BaseField(c.field).strict = strict
    /\ event.f[BaseField(c.field).name] = None

\* some pipe of a field expression, of the given strictness, is handed a
\* value that it cannot convert: Int a str that is no number, Lower a
\* value that is no str.  Int takes its strictness from its argument
\* strict; Lower takes no such argument.
RECURSIVE ConversionFails(_, _, _)
ConversionFails(field, event, strict) ==
    /\ field.cls # "F"
    /\ LET inner == val(field.field, event)
       IN  \/ ConversionFails(field.field, event, strict)
           \/ /\ inner.exc = None
              /\ field.cls = "Int"
              /\ field.strict = strict
              /\ inner.v.t = "str"
              /\ ~IsDigits(inner.v.s)
           \/ /\ inner.exc = None
              /\ field.cls = "Lower"
              /\ ~strict
              /\ inner.v.t # "str"

\* the paths of the conditions of a tree
RECURSIVE LeafPaths(_, _)
LeafPaths(c, path) ==
    IF c.cls = "CondGroup"
    THEN LeafPaths(c.c1, Append(path, 1)) \cup LeafPaths(c.c2, Append(path, 2))
    ELSE {path}

\* ------------------------------------------------- textual conditions
\* amidump's parser of filter strings, for a condition of three tokens
\* `event.<field> <operator> <right>`: the tokens after next_token and
\* unquote.
FilterError == [cls |-> "FilterError"]

\* no condition parsed yet
NoCondition == [cls |-> "None"]

\* expect_int_expr: int(right), FilterError when it is no number
expect_int_expr(right) ==
    IF IsDigits(right) THEN Ret(Num(IntOfStr(right)))
    ELSE Raise("FilterError")

\* next_expression, the branch of three tokens: the condition built, or
\* FilterError.  Equality compares the field with the text of the right
\* token; every other operator wraps the field in Int, and != still
\* compares with the text of the right token.
next_expression(field, operator, right) ==
    LET left_expr == F(field, FALSE)
    IN  CASE operator = "==" ->
               Cond(left_expr, CheckMethod(Str(right), "__eq__"))
          [] operator = "!=" ->
               Cond(IntOf(left_expr, FALSE),
                    CheckMethod(Str(right), "__ne__"))
          [] operator \in {">", "<"} ->
               IF expect_int_expr(right).exc # None THEN FilterError
               ELSE Cond(IntOf(left_expr, FALSE),
                         CheckMethod(expect_int_expr(right).v,
                                     IF operator = ">" THEN "__gt__"
                                     ELSE "__lt__"))
          [] OTHER -> FilterError

\* the filter strings studied
FilterTexts ==
    [field : {"a", "b"}, operator : {"==", "!=", ">", "<", "~"},
     right : {"1", "7", "X"}]

InitDump ==
    /\ Unconnected
    /\ \E t \in FilterTexts, ev \in FilterEvents :
          fx = [pc |-> "text", text |-> t, condition |-> NoCondition,
                event |-> ev, res |-> NoCheck]

\* parse_filter on a string of one condition
ParseFilter ==
    /\ fx.pc = "text"
    /\ \E c \in {next_expression(fx.text.field, fx.text.operator,
                                  fx.text.right)} :
          fx' = [fx EXCEPT !.pc = IF c = FilterError THEN "refused"
                                  ELSE "built",
                           !.condition = c]
    /\ UNCHANGED <<cvars, fr>>

NextDump ==
    \/ ParseFilter
    \/ FilterCheck

SpecDump == InitDump /\ [][NextDump]_vars

\* ------------------------------------------------------- event handler
MaxBound == 2       \* callbacks bound to a handler

\* BoundCallback.filter: None, or a Filter on one of these conditions
NoFilter == [cls |-> "None"]

BoundFilters ==
    {NoFilter,
     E("B"),
     C("Evt", TRUE),
     Cond(IntOf(F("a", FALSE), FALSE), CheckMethod(Num(5), "__gt__")),
     Cond(F("a", FALSE), CheckMethod(Num(5), "__gt__")),
     Cond(IntOf(F("a", FALSE), FALSE), CheckRe("[0-9]+"))}

\* EventHandler.handle from the i-th bound callback on: [tasks, exc].
\* A task is [cb, state]: the callback bound i-th, waiting in the loop.
RECURSIVE handle(_, _, _, _)
handle(bound, event, i, tasks) ==
    IF i > Len(bound) THEN [tasks |-> tasks, exc |-> None]
    ELSE LET r == IF bound[i] = NoFilter
                  THEN [r |-> "True", exc |-> None]
                  ELSE filter_check(bound[i], event)
         IN  IF r.exc # None THEN [tasks |-> tasks, exc |-> r.exc]
             ELSE IF ~Truthy(r.r) THEN handle(bound, event, i + 1, tasks)
             ELSE handle(bound, event, i + 1,
                         Append(tasks, [cb |-> i, state |-> "pending"]))

InitHandler ==
    /\ Unconnected
    /\ \E ev \in FilterEvents :
          fx = [pc |-> "binding", bound |-> <<>>, event |-> ev,
                tasks |-> <<>>, exc |-> None]

\* handler.bind(callback, filter)
Bind(fil) ==
    /\ fx.pc = "binding"
    /\ Len(fx.bound) < MaxBound
    /\ fx' = [fx EXCEPT !.bound = Append(@, fil)]
    /\ UNCHANGED <<cvars, fr>>

\* handler.handle(event, loop), from call to return
Handle ==
    /\ fx.pc = "binding"
    /\ LET h == handle(fx.bound, fx.event, 1, <<>>)
       IN  fx' = [fx EXCEPT !.pc = "handled", !.tasks = h.tasks,
                            !.exc = h.exc]
    /\ UNCHANGED <<cvars, fr>>

\* the loop runs a scheduled callback
RunTask(i) ==
    /\ fx.pc = "handled"
    /\ i \in 1..Len(fx.tasks)
    /\ fx.tasks[i].state = "pending"
    /\ \A j \in 1..(i - 1) : fx.tasks[j].state # "pending"
    /\ fx' = [fx EXCEPT !.tasks[i].state = "done"]
    /\ UNCHANGED <<cvars, fr>>

NextHandler ==
    \/ \E fil \in BoundFilters : Bind(fil)
    \/ Handle
    \/ \E i \in 1..MaxBound : RunTask(i)

SpecHandler == InitHandler /\ [][NextHandler]_vars

\* what filter.check gives for the i-th bound callback
BoundCheck(i) == filter_check(fx.bound[i], fx.event)

\* ------------------------------------------------ the client's handlers
\* A binding made by _bind_event_handler: callback cb bound to the class
\* Event (generic), to an event name (named) or to a subclass of Event
Binding(kind, key, cb) == [kind |-> kind, key |-> key, cb |-> cb]

\* the bindings made before the frames arrive
Bindings ==
    {<<Binding("generic", "Event", "g1")>>,
     <<Binding("generic", "Event", "g1"), Binding("named", "evt", "n1")>>,
     <<Binding("generic", "Event", "g1"), Binding("named", "evt", "n1"),
       Binding("class", "AuthDetail", "c1")>>}

\* the class parse_event gives an event: EVENT_CLASS_MAP is empty
EventClass(event) == "Event"

\* the callbacks of one of the three tables that an event selects
Callbacks(h, kind, key) ==
    LET sel == SelectSeq(h, LAMBDA b : b.kind = kind /\ b.key = key)
    IN  [i \in 1..Len(sel) |-> sel[i].cb]

\* ManagerClient._try_event_handler: the tasks created, in order
try_event_handler(h, event) ==
    Callbacks(h, "generic", "Event")
    \o Callbacks(h, "class", EventClass(event))
    \o Callbacks(h, "named", LowerStr(event.value))

\* ManagerClient._process_packet: the tasks it creates
process_packet_tasks(h, pend, acts, content) ==
    LET p == Parse(content)
    IN  IF p.exc # None THEN <<>>
        ELSE IF try_action_response(pend, acts, p.packet).exc # None THEN <<>>
        ELSE IF p.packet.type = "event" THEN try_event_handler(h, p.packet)
        ELSE <<>>

InitDispatch ==
    /\ FramingState
    /\ \E h \in Bindings :
          fx = [pc |-> "dispatch", handlers |-> h, tasks |-> <<>>]

\* one turn of read_packet with the tasks that _process_packet creates
DispatchTurn(buf) ==
    LET g == get_buffered_packet(buf)
    IN  /\ FramingTurn(buf)
        /\ fx' = [fx EXCEPT !.tasks =
                     IF g.found
                     THEN @ \o process_packet_tasks(fx.handlers, pending,
                                                     act, g.packet)
                     ELSE @]

\* the user task calls read_packet
DispatchRead ==
    /\ upc = "idle"
    /\ DispatchTurn(buffer)
    /\ UNCHANGED <<connected, sock, peerClosed, pending, wire, written,
                   inflight, sent, cpc, cexc, lastCall, budget, stored>>

\* reader.read() returns the next k bytes of the stream
DispatchDeliver(k) ==
    /\ upc = "reading"
    /\ k \in 1..Len(inflight)
    /\ inflight' = Suffix(inflight, k)
    /\ DispatchTurn(buffer \o Prefix(inflight, k))
    /\ UNCHANGED <<connected, sock, peerClosed, pending, wire, written, sent,
                   cpc, cexc, lastCall, budget, stored>>

NextDispatch ==
    \/ DispatchRead
    \/ \E k \in 1..MaxStreamLen : DispatchDeliver(k)

SpecDispatch == InitDispatch /\ [][NextDispatch]_vars

\* ----------------------------------------------------- rejected frames
\* A connected client with the command A1 pending and handlers bound; the
\* stream holds frames that the parser refuses (a frame whose first key is
\* neither Response nor Event, a notification) among responses.
RejectFrames(n) ==
    {[type |-> "notice", value |-> "Evt", aid |-> ActionIdOf("A1"), n |-> n],
     [type |-> "event", value |-> "Evt", aid |-> ActionIdOf("A1"), n |-> n],
     [type |-> "response", value |-> "Success", aid |-> ActionIdOf("A1"),
      n |-> n],
     [type |-> "response", value |-> "Success", aid |-> ActionIdOf("A2"),
      n |-> n]}

RECURSIVE RejectStreamsOf(_, _)
RejectStreamsOf(k, n) ==
    IF k = 0 THEN {<<>>}
    ELSE {<<f>> \o Terminator \o r :
            f \in RejectFrames(n), r \in RejectStreamsOf(k - 1, n + 1)}

RejectStreams == UNION {RejectStreamsOf(k, 2) : k \in 1..MaxStream}

InitReject ==
    /\ connected = TRUE
    /\ sock = "open"
    /\ peerClosed = FALSE
    /\ buffer = <<>>
    /\ pending = (ActionIdOf(LoginAct) :> LoginAct)
                 @@ (ActionIdOf("A1") :> "A1")
    /\ act = [o \in Acts |-> IF o = LoginAct THEN LoginDone
                             ELSE IF o = "A1" THEN bind_loop(NewAction)
                             ELSE NewAction]
    /\ wire = WireOf(<<LoginAct, "A1">>)
    /\ written = {ActionIdOf(LoginAct), ActionIdOf("A1")}
    /\ sent = 1
    /\ cpc = "idle"
    /\ cexc = None
    /\ upc = "idle"
    /\ lastCall = [obj |-> "A1", exc |-> None]
    /\ last = [packet |-> LoginDone.response, exc |-> None]
    /\ stored = [calls |-> 1, args |-> 1]
    /\ budget = 0
    /\ \E st \in RejectStreams :
          /\ inflight = st
          /\ fr = [stream |-> st, out |-> <<>>, reads |-> 0]
    /\ \E h \in Bindings :
          fx = [pc |-> "dispatch", handlers |-> h, tasks |-> <<>>]

SpecReject == InitReject /\ [][NextDispatch]_vars

\* ------------------------------------------------------- packet access
MaxSets == 1        \* assignments packet[key] = value

\* Packet.__setitem__
setitem(packet, key, value) ==
    [packet EXCEPT !.data = DictSet(@, lower(key), value)]

\* Packet.__contains__: the key is looked up as given
contains(packet, item) == HasKey(packet.data, item)

\* self._data[k], for a key that is there
DictGet(d, k) == d[CHOOSE i \in 1..Len(d) : d[i].k = k].v

\* Packet.get(key): [found, v]; found is FALSE when the default is returned
get(packet, key) ==
    IF HasKey(packet.data, lower(key))
    THEN [found |-> TRUE, v |-> DictGet(packet.data, lower(key))]
    ELSE [found |-> FALSE, v |-> <<>>]

\* Packet.value: self.data[self.type], [found, v]; KeyError otherwise
value(packet) ==
    IF HasKey(packet.data, packet.type)
    THEN [found |-> TRUE, v |-> DictGet(packet.data, packet.type)]
    ELSE [found |-> FALSE, v |-> <<>>]

\* Packet.items and Packet.keys
items(packet) == packet.data
keys(packet) == [i \in 1..Len(packet.data) |-> packet.data[i].k]

\* one word in the casings a caller may write it in
Casings(w) == {<<W(w, c)>> : c \in {"lower", "cap", "mixed"}}

\* the keys of the accesses: field names and packet-type names
AccessKeys ==
    UNION {Casings(w) : w \in {"actionid", "message"} \cup MsgKinds}

InitPacket ==
    /\ Unconnected
    /\ \E kind \in MsgKinds, d \in PData :
          /\ Build(kind, d).exc = None
          /\ fx = [pc |-> "packet", packet |-> Build(kind, d).packet,
                   built |-> MainValue(kind), sets |-> 0]

\* packet[key] = v
SetItem(key, v) ==
    /\ fx.pc = "packet"
    /\ fx.sets < MaxSets
    /\ fx' = [fx EXCEPT !.packet = setitem(@, key, v), !.sets = @ + 1]
    /\ UNCHANGED <<cvars, fr>>

NextPacket ==
    \E key \in AccessKeys, v \in {<<W("x", "lower")>>} : SetItem(key, v)

SpecPacket == InitPacket /\ [][NextPacket]_vars

\* ------------------------------------------------------ queued responses
\* A connected client with the commands A1 and A2 pending, and a stream of
\* responses to them that the server has sent whole; the user task calls
\* read_packet again and again.
SyncFrames(n) == [type : {"response"}, value : RespValues,
                  aid : {ActionIdOf("A1"), ActionIdOf("A2")}, n : {n}]

RECURSIVE SyncStreamsOf(_, _)
SyncStreamsOf(k, n) ==
    IF k = 0 THEN {<<>>}
    ELSE {<<f>> \o Terminator \o r :
            f \in SyncFrames(n), r \in SyncStreamsOf(k - 1, n + 1)}

SyncStreams == UNION {SyncStreamsOf(k, 2) : k \in 1..MaxStream}

InitSync ==
    /\ connected = TRUE
    /\ sock = "open"
    /\ peerClosed = FALSE
    /\ buffer = <<>>
    /\ pending = (ActionIdOf(LoginAct) :> LoginAct)
                 @@ (ActionIdOf("A1") :> "A1") @@ (ActionIdOf("A2") :> "A2")
    /\ act = [o \in Acts |-> IF o = LoginAct THEN LoginDone
                             ELSE IF o \in {"A1", "A2"}
                             THEN bind_loop(NewAction)
                             ELSE NewAction]
    /\ wire = WireOf(<<LoginAct, "A1", "A2">>)
    /\ written = {ActionIdOf(LoginAct), ActionIdOf("A1"), ActionIdOf("A2")}
    /\ sent = 1
    /\ cpc = "idle"
    /\ cexc = None
    /\ upc = "idle"
    /\ lastCall = [obj |-> "A2", exc |-> None]
    /\ last = [packet |-> LoginDone.response, exc |-> None]
    /\ stored = [calls |-> 1, args |-> 1]
    /\ budget = 0
    /\ \E st \in SyncStreams :
          /\ inflight = st
          /\ fr = [stream |-> st, out |-> <<>>, reads |-> 0]
    /\ fx = NoEval

SpecSync == InitSync /\ [][NextFraming]_vars

\* ------------------------------------------------------------ pull mode
\* ManagerClient.get_event on buffer buf, up to its next suspension or to
\* its end: read_packet is called again after every response.  out lists
\* what the calls of read_packet handled.
RECURSIVE get_event_run(_, _, _)

\* what get_event does with the outcome t of one call of read_packet
get_event_next(t, pend) ==
    IF t.kind = "read"
    THEN [kind |-> "read", buffer |-> t.buffer, act |-> t.act, out |-> <<>>,
          packet |-> NoPacket, exc |-> None]
    ELSE IF t.exc # None
    THEN [kind |-> "raised", buffer |-> t.buffer, act |-> t.act,
          out |-> <<t.last>>, packet |-> NoPacket, exc |-> t.exc]
    ELSE IF t.packet.type = "event"
    THEN [kind |-> "returned", buffer |-> t.buffer, act |-> t.act,
          out |-> <<t.last>>, packet |-> t.packet, exc |-> None]
    ELSE [get_event_run(t.buffer, pend, t.act) EXCEPT
             !.out = <<t.last>> \o @]

get_event_run(buf, pend, acts) ==
    CHOOSE r \in {get_event_next(t, pend) :
                     t \in {read_packet_turn(buf, pend, acts)}} : TRUE

InitPull ==
    /\ FramingState
    /\ fx = [pc |-> "pull", returned |-> <<>>, raised |-> <<>>]

\* get_event is called, or resumes after a read
PullTurn(buf) ==
    \E g \in {get_event_run(buf, pending, act)} :
        /\ buffer' = g.buffer
        /\ act' = g.act
        /\ upc' = IF g.kind = "read" THEN "reading" ELSE "idle"
        /\ last' = IF g.out = <<>> THEN last ELSE g.out[Len(g.out)]
        /\ fr' = [fr EXCEPT !.out = @ \o g.out,
                            !.reads = @ + (IF buf = buffer THEN 0 ELSE 1)]
        /\ fx' = [fx EXCEPT
                     !.returned = IF g.kind = "returned"
                                  THEN Append(@, g.packet) ELSE @,
                     !.raised = IF g.kind = "raised"
                                THEN Append(@, g.exc) ELSE @]

\* the user task calls get_event
PullCall ==
    /\ upc = "idle"
    /\ PullTurn(buffer)
    /\ UNCHANGED <<connected, sock, peerClosed, pending, wire, written,
                   inflight, sent, cpc, cexc, lastCall, budget, stored>>

\* reader.read() returns the next k bytes of the stream
PullDeliver(k) ==
    /\ upc = "reading"
    /\ k \in 1..Len(inflight)
    /\ inflight' = Suffix(inflight, k)
    /\ PullTurn(buffer \o Prefix(inflight, k))
    /\ UNCHANGED <<connected, sock, peerClosed, pending, wire, written, sent,
                   cpc, cexc, lastCall, budget, stored>>

NextPull ==
    \/ PullCall
    \/ \E k \in 1..MaxStreamLen : PullDeliver(k)

SpecPull == InitPull /\ [][NextPull]_vars

\* the frames that the calls of read_packet have handled so far
HandledFrames == [i \in 1..Len(fr.out) |-> fr.out[i].packet]

\* ------------------------------------------------------------- binding
MaxBinds == 2       \* calls that bind a callback

\* a callback: a coroutine function or a plain function
BindCallbacks ==
    {[name |-> "co", coroutine |-> TRUE],
     [name |-> "plain", coroutine |-> FALSE]}

EventCls(key) == [kind |-> "class", key |-> key]
EventName(key) == [kind |-> "name", key |-> key]

\* the first argument of handle_event: one subclass of Event, one event
\* name, or an iterable of them
BindArgs ==
    {[form |-> "class", items |-> <<EventCls("Event")>>],
     [form |-> "class", items |-> <<EventCls("AuthDetail")>>],
     [form |-> "name", items |-> <<EventName("Evt")>>],
     [form |-> "iter", items |-> <<EventCls("Event"), EventCls("AuthDetail")>>],
     [form |-> "iter", items |-> <<EventName("Evt"), EventCls("AuthDetail")>>]}

\* the binding that _bind_event_handler makes for one event class
BindingOf(item, cb) ==
    IF item = EventCls("Event") THEN Binding("generic", "Event", cb.name)
    ELSE IF item.kind = "name"
    THEN Binding("named", LowerStr(item.key), cb.name)
    ELSE Binding("class", item.key, cb.name)

\* ManagerClient._bind_event_handler: the callback is checked before the
\* first class is bound
bind_event_handler(h, event_classes, cb) ==
    IF ~cb.coroutine THEN [h |-> h, exc |-> "ProgrammingError"]
    ELSE [h |-> h \o [i \in 1..Len(event_classes) |->
                         BindingOf(event_classes[i], cb)],
          exc |-> None]

\* ManagerClient.handle_event, as a bind method or as a decorator applied
\* to cb: issubclass(event_class, Event) is evaluated first and raises
\* TypeError when event_class is not a class
handle_event(h, arg, cb) ==
    IF arg.form # "class" THEN [h |-> h, exc |-> "TypeError"]
    ELSE bind_event_handler(h, arg.items, cb)

\* EventHandler._bind_callback
bind_callback(bound, cb, fil) ==
    IF ~cb.coroutine THEN [bound |-> bound, exc |-> "ProgrammingError"]
    ELSE [bound |-> Append(bound, [filter |-> fil, cb |-> cb.name]),
          exc |-> None]

NoBindCall == [via |-> None]

InitBind ==
    /\ Unconnected
    /\ fx = [pc |-> "bind", handlers |-> <<>>, bound |-> <<>>,
             call |-> NoBindCall, exc |-> None, calls |-> 0]

\* client.handle_event(arg, cb) or client.handle_event(arg)(cb)
HandleEvent(arg, cb) ==
    /\ fx.pc = "bind"
    /\ fx.calls < MaxBinds
    /\ LET r == handle_event(fx.handlers, arg, cb)
       IN  fx' = [fx EXCEPT !.handlers = r.h, !.exc = r.exc,
                            !.call = [via |-> "handle_event", arg |-> arg,
                                      cb |-> cb],
                            !.calls = @ + 1]
    /\ UNCHANGED <<cvars, fr>>

\* client._bind_event_handler(classes, cb)
BindEventHandler(arg, cb) ==
    /\ fx.pc = "bind"
    /\ fx.calls < MaxBinds
    /\ LET r == bind_event_handler(fx.handlers, arg.items, cb)
       IN  fx' = [fx EXCEPT !.handlers = r.h, !.exc = r.exc,
                            !.call = [via |-> "_bind_event_handler",
                                      arg |-> arg, cb |-> cb],
                            !.calls = @ + 1]
    /\ UNCHANGED <<cvars, fr>>

\* handler.bind(cb, fil) or handler.bind(fil)(cb)
HandlerBind(cb, fil) ==
    /\ fx.pc = "bind"
    /\ fx.calls < MaxBinds
    /\ LET r == bind_callback(fx.bound, cb, fil)
       IN  fx' = [fx EXCEPT !.bound = r.bound, !.exc = r.exc,
                            !.call = [via |-> "bind", arg |-> fil,
                                      cb |-> cb],
                            !.calls = @ + 1]
    /\ UNCHANGED <<cvars, fr>>

NextBind ==
    \/ \E arg \in BindArgs, cb \in BindCallbacks : HandleEvent(arg, cb)
    \/ \E arg \in BindArgs, cb \in BindCallbacks : BindEventHandler(arg, cb)
    \/ \E cb \in BindCallbacks, fil \in {NoFilter, E("B")} :
          HandlerBind(cb, fil)

SpecBind == InitBind /\ [][NextBind]_vars

\* ============================================================ properties
\* The frame that read_packet handles in this step (every frame carries
\* its own sequence number, so `last` changes whenever one is handled)
Processed(p) == last' # last /\ last'.packet = p /\ p # NoPacket

\* The step is a call of action() on object o by the user task
CallOf(o) ==
    /\ budget' = budget - 1
    /\ sent' = sent
    /\ cpc' = cpc
    /\ lastCall'.obj = o

\* position of the command with id `id` on the wire, 0 if it is not there
WirePos(id) ==
    IF \E i \in 1..Len(wire) : wire[i].aid = id
    THEN CHOOSE i \in 1..Len(wire) : wire[i].aid = id
    ELSE 0

C2_FutureIsOk ==
    \A o \in UserActs :
        FutDone(act[o].complete_future) =>
            /\ act[o].complete_future = act[o].ok
            /\ act[o].ok = Bool(~is_error(act[o].response))

\* C3: handling a Follows response for a pending action that is not
\* complete leaves it not complete with its completion future unresolved,
\* and handling a notification that carries the id of a pending action
\* whose recorded response is Follows appends the notification at the end
\* of that action's events list.
C3_FollowsKeepsOpen ==
    [][\A o \in Acts :
          LET p == last'.packet
          IN  (/\ Processed(p)
               /\ p.aid \in DOMAIN pending
               /\ pending[p.aid] = o) =>
                  /\ (p.type = "response" /\ is_follows(p)
                      /\ ~act[o].is_complete) =>
                         /\ ~act'[o].is_complete
                         /\ act'[o].complete_future = "pending"
                         /\ act'[o].response = p
                  /\ (p.type = "event" /\ is_follows(act[o].response)) =>
                         act'[o].events = Append(act[o].events, p)
      ]_vars

\* C4: for a pending action that has received Follows and is not complete,
\* processing a later non-Follows response with its id ends without an
\* exception, and the action is complete with its completion future
\* resolved.
C4_TerminalAfterFollows ==
    [][\A o \in Acts :
          LET p == last'.packet
          IN  (/\ Processed(p)
               /\ p.type = "response" /\ ~is_follows(p)
               /\ p.aid \in DOMAIN pending
               /\ pending[p.aid] = o
               /\ is_follows(act[o].response)
               /\ ~act[o].is_complete) =>
                  /\ last'.exc = None
                  /\ act'[o].is_complete
                  /\ FutDone(act'[o].complete_future)
      ]_vars

C6_ContiguousCommands ==
    /\ Len(wire) % 2 = 0
    /\ \A i \in 1..Len(wire) :
          wire[i].part = (IF i % 2 = 1 THEN "data" ELSE "term")

\* the connect() task and the user task have both written a command
C6_TwoWriters ==
    /\ \E i \in 1..Len(wire) : wire[i].aid = ActionIdOf(LoginAct)
    /\ \E i \in 1..Len(wire) : wire[i].aid \in {"a", "b"}

\* C7: action() called with an action that has no id, or whose id is in
\* the table of pending actions, raises ProgrammingError, leaves the table
\* as it is and writes nothing.
C7_RejectedCall ==
    [][\A o \in UserActs :
          (/\ CallOf(o)
           /\ \/ ActionIdOf(o) = None
              \/ ActionIdOf(o) \in DOMAIN pending) =>
              /\ lastCall'.exc = "ProgrammingError"
              /\ pending' = pending
              /\ wire' = wire
              /\ written' = written
      ]_vars

\* A3 was refused because its id is pending for A1, which is still there
C7_DuplicateRefused ==
    /\ lastCall = [obj |-> "A3", exc |-> "ProgrammingError"]
    /\ "a" \in DOMAIN pending
    /\ pending["a"] = "A1"

\* C8: the table of pending actions holds outstanding actions only: no id
\* in it maps to an action that is complete.
C8_OnlyOutstanding ==
    \A id \in DOMAIN pending : ~act[pending[id]].is_complete

\* C9: once the client has handled the end of the stream (the writer is
\* closed), it is not in the connected state.
C9_DisconnectedAfterEof == sock = "closed" => ~connected

\* C10: the step in which read_packet handles a read of zero bytes clears
\* the buffer and the table of pending actions, ends the reading coroutine
\* with an exception, and leaves what the server sent unread.
C10_EofResets ==
    [][(sock = "open" /\ sock' = "closed") =>
          /\ buffer' = <<>>
          /\ pending' = <<>>
          /\ last'.packet = NoPacket
          /\ last'.exc # None
          /\ upc' # "reading"
          /\ cpc' # "auth_reading"
          /\ inflight' = inflight
      ]_vars

\* read_packet has ended on a read of zero bytes after commands were sent
C10_EofHandled ==
    /\ sock = "closed"
    /\ last = Raised("AttributeError")
    /\ Len(wire) >= 2
    /\ buffer = <<>>
    /\ pending = <<>>

\* positions of connect() inside _auth
AuthPcs == {"auth", "auth_reading", "auth_wait"}

C12_ConnectOnConnected ==
    [][(stored'.calls = stored.calls + 1 /\ connected) =>
          /\ cexc' = "ProgrammingError"
          /\ cpc' = "idle"
          /\ buffer' = buffer
          /\ pending' = pending
          /\ stored'.args = stored.args
          /\ sock' = sock
          /\ wire' = wire
          /\ inflight' = inflight
          /\ connected'
      ]_vars

\* a second connect() was refused on the connected client, which still
\* holds the first call's parameters and its table
C12_SecondConnectRefused ==
    /\ connected
    /\ cexc = "ProgrammingError"
    /\ stored = [calls |-> 2, args |-> 1]
    /\ pending # <<>>
    /\ sock = "open"

\* C13: however the stream is cut into reads, the frames that successive
\* read_packet calls have handled, with their outcomes, are a prefix of
\* what they handle when the whole stream arrives in one read, and all of
\* it once the stream has been read and the buffer holds no whole frame.
C13_SameFrames ==
    LET ref == RefRun(fr.stream, pending, FramingActs)
    IN  /\ Len(fr.out) <= Len(ref)
        /\ fr.out = SubSeq(ref, 1, Len(fr.out))
        /\ (inflight = <<>> /\ ~HasFrame(buffer)) => fr.out = ref

\* a stream of two frames was read one byte at a time, and both frames
\* have been handled
C13_ByteByByte ==
    /\ Len(fr.stream) >= 10
    /\ inflight = <<>>
    /\ fr.reads = Len(fr.stream)
    /\ Len(fr.out) = 2
    /\ fr.out[1].packet # NoPacket
    /\ fr.out[2].packet # NoPacket

\* C14: a message built in memory, serialized with
\* serialize_outgoing_packet and parsed with parse_incoming_packet, comes
\* back as a message of the same kind with the same main value and the same
\* field/value pairs, up to key casing.
C14_RoundTrip ==
    fx.pc = "parsed" =>
        /\ fx.res.exc = None
        /\ Equivalent(fx.res.packet, fx.msg)

\* C15: CondGroup.check short-circuits. When the left condition evaluates
\* to false in an AND group the right condition is not evaluated and the
\* group is false; when it evaluates to true in an OR group the right
\* condition is not evaluated and the group is true; in every other case
\* in which the left condition returns, the right condition is evaluated
\* exactly once and, if it returns, the group returns the boolean AND/OR
\* of both.
C15_ShortCircuit ==
    (/\ fx.pc = "checked"
     /\ fx.condition.cls = "CondGroup") =>
        LET g == fx.condition
            r1 == check(g.c1, fx.event, <<1>>)
            r2 == check(g.c2, fx.event, <<2>>)
            n2 == Evaluations(fx.res.log, <<2>>)
            conj == g.method_name = "__and__"
        IN  r1.exc = None =>
               IF (conj /\ r1.r = "False") \/ (~conj /\ r1.r = "True")
               THEN /\ n2 = 0
                    /\ fx.res.exc = None
                    /\ fx.res.r = r1.r
               ELSE /\ n2 = 1
                    /\ r2.exc = None =>
                          /\ fx.res.exc = None
                          /\ fx.res.r = PyBool(IF conj
                                                THEN Truthy(r1.r) /\ Truthy(r2.r)
                                                ELSE Truthy(r1.r) \/ Truthy(r2.r))

\* C16: a condition on a non-strict field that the event lacks is False
\* for that condition only: in an OR group whose left condition is such a
\* condition, the right condition is evaluated (once) and Filter.check
\* gives what the right condition alone gives.
C16_RightDecides ==
    (/\ fx.pc = "checked"
     /\ fx.condition.cls = "CondGroup"
     /\ fx.condition.method_name = "__or__"
     /\ MissingField(fx.condition.c1, fx.event, FALSE)) =>
        LET right == filter_check(fx.condition.c2, fx.event)
        IN  /\ check(fx.condition.c1, fx.event, <<1>>).r = "False"
            /\ check(fx.condition.c1, fx.event, <<1>>).exc = None
            /\ Evaluations(fx.res.log, <<2>>) = 1
            /\ fx.res.r = right.r
            /\ fx.res.exc = right.exc

\* a absent, b = 1: Int(F("a")) > 5 | Int(F("b")) < 2 was checked, True
C16_Scenario ==
    /\ fx.pc = "checked"
    /\ fx.condition =
          CondGroup(Cond(IntOf(F("a", FALSE), FALSE),
                         CheckMethod(Num(5), "__gt__")),
                    Cond(IntOf(F("b", FALSE), FALSE),
                         CheckMethod(Num(2), "__lt__")),
                    "__or__")
    /\ fx.event.f = [a |-> None, b |-> "1"]
    /\ fx.res.r = "True"
    /\ fx.res.log = <<<<>>, <<1>>, <<2>>>>

\* C17, as stated: a filter tree that contains a condition on a strict
\* field gives False for every event that lacks the field, whatever its
\* other branches give.
C17_StrictAnywhere ==
    (/\ fx.pc = "checked"
     /\ \E p \in LeafPaths(fx.condition, <<>>) :
           MissingField(NodeAt(fx.condition, p), fx.event, TRUE)) =>
        /\ fx.res.exc = None
        /\ fx.res.r = "False"

\* C17, amended: when the evaluation reaches a condition on a strict field
\* that the event lacks, Filter.check gives False, whatever the other
\* branches give.
C17_StrictReached ==
    (/\ fx.pc = "checked"
     /\ \E i \in 1..Len(fx.res.log) :
           MissingField(NodeAt(fx.condition, fx.res.log[i]), fx.event, TRUE)) =>
        /\ fx.res.exc = None
        /\ fx.res.r = "False"

\* the left condition of an OR group is on a strict field that is missing,
\* the right condition is True on the event, and the filter gave False
C17_StrictAborts ==
    /\ fx.pc = "checked"
    /\ fx.condition.cls = "CondGroup"
    /\ fx.condition.method_name = "__or__"
    /\ MissingField(fx.condition.c1, fx.event, TRUE)
    /\ check(fx.condition.c2, fx.event, <<2>>).r = "True"
    /\ fx.res.r = "False"
    /\ fx.res.exc = None

\* C18: Filter.check returns a boolean and raises nothing, for every filter
\* tree and every event.
C18_BooleanNoRaise ==
    fx.pc = "checked" =>
        /\ fx.res.exc = None
        /\ fx.res.r \in {"True", "False"}

\* C19: EventHandler.handle(event) returns having scheduled, in binding
\* order, exactly one task for each bound callback whose filter is absent
\* or whose filter.check(event) is true and none for a callback whose
\* filter.check(event) is false, and without having run any of them.
C19_HandleSchedules ==
    [][(fx.pc = "binding" /\ fx'.pc = "handled") =>
          /\ fx'.exc = None
          /\ \A i \in 1..Len(fx.bound) :
                LET n == Cardinality({j \in 1..Len(fx'.tasks) :
                                         fx'.tasks[j].cb = i})
                IN  /\ fx.bound[i] = NoFilter => n = 1
                    /\ (fx.bound[i] # NoFilter /\ BoundCheck(i).exc = None
                        /\ BoundCheck(i).r = "True") => n = 1
                    /\ (fx.bound[i] # NoFilter /\ BoundCheck(i).exc = None
                        /\ BoundCheck(i).r = "False") => n = 0
          /\ \A j, k \in 1..Len(fx'.tasks) :
                j < k => fx'.tasks[j].cb < fx'.tasks[k].cb
          /\ \A j \in 1..Len(fx'.tasks) : fx'.tasks[j].state = "pending"]_vars

\* C20: when read_packet has handled a frame that is an event, every
\* generic handler and every handler bound to the event's class or to its
\* lower-cased name has been scheduled once for it, and read_packet did
\* not raise.
C20_HandlersScheduled ==
    [][(/\ fx.pc = "dispatch"
        /\ upc' = "idle"
        /\ last' # last
        /\ last'.packet.type = "event") =>
          /\ last'.exc = None
          /\ fx'.tasks = fx.tasks \o try_event_handler(fx.handlers,
                                                        last'.packet)]_vars

\* C21: in pull mode the calls of get_event return exactly the events of
\* the frames handled, in stream order, none lost and none twice; a
\* response handled in between is recorded by the pending action that has
\* its id.
C21_PullReturnsEvents ==
    fx.pc = "pull" =>
        /\ fx.returned = SelectSeq(HandledFrames,
                                   LAMBDA f : f.type = "event")
        /\ \A i \in 1..Len(HandledFrames) :
              LET f == HandledFrames[i]
              IN  (f.type = "response" /\ f.aid \in DOMAIN pending) =>
                     act[pending[f.aid]].response.type = "response"

\* C22: a call that binds a callback that is not a coroutine function,
\* through handle_event, _bind_event_handler or EventHandler.bind, raises
\* ProgrammingError and leaves every handler list as it was, also when
\* several event classes are given.
C22_PlainCallbackRefused ==
    [][(fx.pc = "bind" /\ fx'.calls = fx.calls + 1
        /\ ~fx'.call.cb.coroutine) =>
          /\ fx'.exc = "ProgrammingError"
          /\ fx'.handlers = fx.handlers
          /\ fx'.bound = fx.bound]_vars

\* C23: a terminal response that arrives for a pending action that is
\* already complete is surfaced as InternalError, and so is completing an
\* action that has no recorded response; in every state an action that is
\* complete has a recorded response.
C23_TwiceIsInternalError ==
    [][\A o \in Acts :
          /\ act'[o].is_complete => act'[o].response # NoPacket
          /\ LET p == last'.packet
             IN  (/\ Processed(p)
                  /\ p.type = "response" /\ ~is_follows(p)
                  /\ p.aid \in DOMAIN pending
                  /\ pending[p.aid] = o
                  /\ act[o].is_complete) =>
                     last'.exc = "InternalError"
      ]_vars

\* C24: an action that was pending when the peer closed the connection
\* gets no further signal: its completion future is unresolved in every
\* later state, also after a new connect() and after frames that carry
\* its id have been handled on the new connection.
C24_OrphanUnresolved ==
    \A o \in Orphans :
        /\ act[o].complete_future = "pending"
        /\ ~act[o].is_complete
        /\ act[o].response = NoPacket

\* a response with the id of A1 has been handled on a second connection
C24_AnsweredOnNewConnection ==
    /\ stored.args = 2
    /\ sock = "open"
    /\ last.packet.type = "response"
    /\ last.packet.aid = ActionIdOf("A1")
    /\ last.exc = None
    /\ act["A1"].complete_future = "pending"

\* C25: after any sequence of assignments packet[key] = value, with keys
\* in any casing, the main value of the packet is the value it was
\* constructed with.
C25_MainValueKept ==
    fx.pc = "packet" => value(fx.packet) = [found |-> TRUE, v |-> fx.built]

\* C26: key lookup is case-insensitive in every accessor: for every key in
\* any casing, `key in packet` is true exactly when get(key) returns a
\* stored value, and get gives the same for two keys that differ only in
\* case.
C26_LookupAnyCase ==
    fx.pc = "packet" =>
        /\ \A k \in AccessKeys :
              contains(fx.packet, k) <=> get(fx.packet, k).found
        /\ \A k1, k2 \in AccessKeys :
              lower(k1) = lower(k2) => get(fx.packet, k1) = get(fx.packet, k2)

\* C27: the main-header key is not part of the field map: items() and
\* keys() never yield it, and neither get() nor `in` finds the main
\* value under the name of the packet type.
C27_MainHeaderApart ==
    fx.pc = "packet" =>
        /\ \A i \in 1..Len(items(fx.packet)) :
              items(fx.packet)[i].k # fx.packet.type
        /\ \A i \in 1..Len(keys(fx.packet)) :
              keys(fx.packet)[i] # fx.packet.type
        /\ \A k \in Casings(fx.packet.type[1].w) :
              /\ ~get(fx.packet, k).found
              /\ ~contains(fx.packet, k)

\* the frames and bytes received or on their way and not yet handled
Unhandled == {(buffer \o inflight)[i] : i \in 1..Len(buffer \o inflight)}

C29_EventsWhileOutstanding ==
    [][\A o \in Acts :
          LET p == last'.packet
          IN  IF /\ Processed(p)
                 /\ p.type = "event"
                 /\ p.aid \in DOMAIN pending
                 /\ pending[p.aid] = o
                 /\ ~act[o].is_complete
              THEN act'[o].events = Append(act[o].events, p)
              ELSE act'[o].events = act[o].events
      ]_vars

C31_OthersUntouched ==
    [][LET p == last'.packet
       IN  Processed(p) =>
              /\ \A o \in Acts : ActionIdOf(o) # p.aid => act'[o] = act[o]
              /\ DOMAIN pending' = DOMAIN pending
      ]_vars

\* the response to A1 has been handled while A2 is pending and untouched
C31_OneOfTwoAnswered ==
    /\ last.packet.type = "response"
    /\ last.packet.aid = ActionIdOf("A1")
    /\ act["A1"].response = last.packet
    /\ ActionIdOf("A2") \in DOMAIN pending
    /\ act["A2"] = bind_loop(NewAction)

\* C32: one framing step conserves the buffer. With a terminator in the
\* buffer the step handles the bytes before its first occurrence and
\* leaves exactly the bytes after it; without one it handles nothing and
\* keeps the buffer; and the socket is read only when the buffer holds no
\* whole frame.
C32_BufferConserved ==
    [][LET read == SubSeq(inflight, 1, Len(inflight) - Len(inflight'))
           B == buffer \o read
       IN  /\ HasFrame(B) =>
                  /\ \E k \in 0..Len(B) :
                        /\ B = Prefix(B, k) \o Terminator \o buffer'
                        /\ \A i \in TermAt(B) : i >= k + 1
                        /\ fr'.out = Append(fr.out,
                                            [packet |-> FrameOf(Prefix(B, k)),
                                             exc |-> last'.exc])
                  /\ upc' = "idle"
           /\ ~HasFrame(B) =>
                  /\ buffer' = B
                  /\ fr'.out = fr.out
                  /\ upc' = "reading"
           /\ read # <<>> => ~HasFrame(buffer)
      ]_vars

\* two frames came in one read: the first is handled, the second is
\* what the buffer holds
C32_SecondFrameKept ==
    /\ Len(fr.out) = 1
    /\ fr.reads = 1
    /\ inflight = <<>>
    /\ HasFrame(buffer)
    /\ Len(buffer) > 4

C34_PipeStrictness ==
    fx.pc = "checked" =>
        \A i \in 1..Len(fx.res.log) :
           LET c == NodeAt(fx.condition, fx.res.log[i])
               own == [r |-> "False", exc |-> None]
               whole == fx.res.exc = None /\ fx.res.r = "False"
           IN  (c.cls = "Cond" /\ c.field.cls # "F") =>
                  /\ ConversionFails(c.field, fx.event, TRUE) => whole
                  /\ (/\ ConversionFails(c.field, fx.event, FALSE)
                      /\ ~ConversionFails(c.field, fx.event, TRUE)) =>
                        /\ cond_check(c, fx.event) = own
                        /\ (fx.res.log[i] = <<1>>
                            /\ fx.condition.method_name = "__or__")
                              => Evaluations(fx.res.log, <<2>>) = 1
                  /\ MissingField(c, fx.event, TRUE) => whole
                  /\ MissingField(c, fx.event, FALSE) =>
                        cond_check(c, fx.event) = own

\* C35: the client becomes connected only when connect() has read the
\* greeting of the connection and the login action of that connect() holds
\* a response with its id that is not an error, which makes this true of
\* every state in which the client is connected; and a connect() that
\* ends by raising from the socket, signature or authentication step
\* leaves the client not connected.
C35_ConnectedMeansLoggedIn ==
    [][/\ (connected' /\ ~connected) =>
             /\ cpc \in {"auth", "auth_reading", "auth_wait"}
             /\ cpc' = "idle"
             /\ cexc' = None
             /\ stored.args = stored.calls
             /\ SIG \notin Unhandled
             /\ act'[LoginAct].response.type = "response"
             /\ act'[LoginAct].response.aid = ActionIdOf(LoginAct)
             /\ ~is_error(act'[LoginAct].response)
       /\ (/\ cpc \in {"opening", "signature", "auth", "auth_reading",
                        "auth_wait"}
           /\ cpc' = "idle"
           /\ cexc' # None) => ~connected'
      ]_vars

\* a first connect() has failed, a second one has logged in
C35_SecondAttemptConnected ==
    /\ connected
    /\ stored.calls = 2
    /\ cpc = "idle"
    /\ cexc = None
    /\ ~is_error(act[LoginAct].response)

\* C36: handling a response or a notification that carries no action id,
\* or an id that is not in the table of pending actions, leaves every
\* action and the table as they were, and such a notification is still
\* handed to the handlers bound for it: one task for each, in the order
\* generic, class, name.
C36_UnmatchedFrame ==
    [][LET read == SubSeq(inflight, 1, Len(inflight) - Len(inflight'))
           B == buffer \o read
           f == FrameOf(Prefix(B, FirstTerm(B) - 1))
       IN  (/\ HasFrame(B)
            /\ f.type \in {"response", "event"}
            /\ f.aid = None \/ f.aid \notin DOMAIN pending) =>
              /\ act' = act
              /\ pending' = pending
              /\ f.type = "event" =>
                    fx'.tasks = fx.tasks \o try_event_handler(fx.handlers, f)
      ]_vars

\* C37: action() is atomic with respect to failure: a call of action()
\* that raises, whatever the reason, leaves the table of pending actions
\* as it found it, so the action it was given is not registered by it.
C37_FailedActionNotRegistered ==
    [][\A o \in UserActs :
          (CallOf(o) /\ lastCall'.exc # None) => pending' = pending
      ]_vars

\* C38: the outcome of a complete action is final: handling a further
\* response frame that carries its id leaves its recorded response, its ok
\* value and the result of its completion future as they were.
C38_OutcomeFinal ==
    [][\A o \in Acts :
          LET p == last'.packet
          IN  (/\ Processed(p)
               /\ p.type = "response"
               /\ p.aid = ActionIdOf(o)
               /\ act[o].is_complete) =>
                  /\ act'[o].response = act[o].response
                  /\ act'[o].ok = act[o].ok
                  /\ act'[o].complete_future = act[o].complete_future
      ]_vars

\* C39: the login handshake ends on the login response.  When the
\* read_packet of _auth has handled a frame: if the frame is a notification
\* or a response with another id, connect() goes on reading; if it is the
\* response with the login's id, connect() has returned or raised,
\* whatever the status of the response.
C39_HandshakeEndsOnLogin ==
    [][LET p == last'.packet
       IN  (/\ cpc \in {"auth", "auth_reading"}
            /\ cpc = "auth_reading" \/ cpc' # cpc
            /\ last' # last
            /\ p.type \in {"response", "event"}) =>
              IF p.type = "response" /\ p.aid = ActionIdOf(LoginAct)
              THEN cpc' = "idle"
              ELSE cpc' = "auth" /\ cexc' = cexc
      ]_vars

\* C40: the textual condition `event.<field> != <value>` is true exactly
\* for the events in which the field is present with a string value that
\* differs from the given value, false when the field is present and equal
\* to it, and its check raises nothing, for values that look like integers
\* as for the others.
C40_TextNotEqual ==
    (fx.pc = "checked" /\ fx.text.operator = "!=") =>
        LET v == fx.event.f[fx.text.field]
        IN  /\ fx.res.exc = None
            /\ (fx.res.r = "True") = (v # None /\ v # fx.text.right)
            /\ (v # None /\ v = fx.text.right) => fx.res.r = "False"

====
